---- MODULE Spec2Model ----
(***************************************************************************)
(* hwcomponents: selection of the best-matching component model for a      *)
(* query (select_models.py / select_estimators.py) on top of the model     *)
(* wrapper (estimator_wrapper.py), and the component models themselves     *)
(* (model.py): construction, scaling, leak power and area over the tree of *)
(* subcomponents, and the wrapper that the action decorator puts around an *)
(* action.                                                                  *)
(*                                                                         *)
(* Strings that the code transforms (component names) are sequences of     *)
(* one-character strings; dictionary values are tagged records so that     *)
(* None, numbers and strings can live in one dict.                         *)
(***************************************************************************)
EXTENDS Integers, Sequences, FiniteSets, TLC

VARIABLES pc, call, result, default_messages

\* the component models a client has constructed, the action calls in
\* progress on them, and what the finished operations gave back
VARIABLES objects, stack, history

model_vars == <<objects, stack, history>>

vars == <<pc, call, result, default_messages, objects, stack, history>>

----------------------------------------------------------------------------
(* Bounds *)

\* longest pool (list of models) handed to a public operation
MaxPool == 2

\* a request is started only while the process-wide message lists hold at
\* most this many messages
MaxTrail == 0

----------------------------------------------------------------------------
(* Python values and dicts *)

None == [t |-> "none", v |-> 0]
IntV(n) == [t |-> "int", v |-> n]
StrV(s) == [t |-> "str", v |-> s]

EmptyDict == [k \in {} |-> None]

\* dict.get(key) / dict.get(key, default)
Get(d, key, default) == IF key \in DOMAIN d THEN d[key] ELSE default

\* del d[key] for every key of keys that is in d
Without(d, keys) == [k \in (DOMAIN d) \ keys |-> d[k]]

\* {k: v for k, v in d.items() if v is not None}
DropNone(d) == [k \in {x \in DOMAIN d : d[x] # None} |-> d[k]]

\* str.lower() on the characters that occur in the names used here
LowerChar(c) ==
    CASE c = "A" -> "a"
      [] c = "D" -> "d"
      [] c = "M" -> "m"
      [] OTHER -> c

Lower(s) == [i \in DOMAIN s |-> LowerChar(s[i])]

RECURSIVE RemoveUnderscores(_)
RemoveUnderscores(s) ==
    IF s = <<>> THEN <<>>
    ELSE IF Head(s) = "_" THEN RemoveUnderscores(Tail(s))
    ELSE <<Head(s)>> \o RemoveUnderscores(Tail(s))

\* the elements of a sequence
Range(s) == {s[i] : i \in DOMAIN s}

----------------------------------------------------------------------------
(* The plugin classes that pools are drawn from.  ModelA follows the       *)
(* tutorial's TernaryMAC: one required constructor parameter, area and     *)
(* leak power proportional to it, and a range assertion in the constructor.*)
(* ModelB needs no parameter and declares optional parameters named model  *)
(* (constructor) and energy (write); ModelC has two component names, one   *)
(* with an underscore, and declares an optional parameter named area.      *)

ModelClasses == {"ModelA", "ModelB", "ModelC"}

\* class attribute component_name (a string or a list of strings)
ClassComponentName(cls) ==
    CASE cls = "ModelA" -> << <<"A", "d">> >>
      [] cls = "ModelB" -> << <<"a", "d">> >>
      [] cls = "ModelC" -> << <<"m">>, <<"A", "_", "D">> >>

\* class attribute priority (percent_accuracy_0_to_100 in the estimator API)
ClassPriority(cls) ==
    CASE cls = "ModelA" -> 9
      [] cls = "ModelB" -> 5
      [] cls = "ModelC" -> 7

\* def __init__(self, ...): parameter names and the number of defaults
ClassInitSignature(cls) ==
    CASE cls = "ModelA" -> [args |-> <<"width">>, defaults |-> 0]
      [] cls = "ModelB" -> [args |-> <<"model">>, defaults |-> 1]
      [] cls = "ModelC" -> [args |-> <<"width", "area">>, defaults |-> 2]

\* dir(cls) restricted to the decorated actions, in dir()'s sorted order;
\* leak is inherited from the base class by every model
ClassActionNames(cls) ==
    CASE cls = "ModelA" -> <<"leak", "read">>
      [] cls = "ModelB" -> <<"leak", "read", "write">>
      [] cls = "ModelC" -> <<"leak", "read">>

\* signature of an action method
ActionSignature(cls, a) ==
    CASE a = "leak" -> [args |-> <<"time_period">>, defaults |-> 0]
      [] a = "write" -> [args |-> <<"energy">>, defaults |-> 1]
      [] OTHER -> [args |-> <<>>, defaults |-> 0]

\* cls(**kwargs): the constructor body.  raised = an exception left it.
Construct(cls, kwargs) ==
    LET w == IF "width" \in DOMAIN kwargs THEN kwargs["width"].v ELSE 4
        a == IF "area" \in DOMAIN kwargs THEN kwargs["area"].v ELSE 0
        obj(area, leak) == [cls |-> cls, kwargs |-> kwargs, _area |-> area,
                            _leak_power |-> leak, energy_scale |-> 1,
                            area_scale |-> 1, leak_scale |-> 1, width |-> w]
    IN  CASE cls = "ModelA" ->
               [raised |-> ~("width" \in DOMAIN kwargs /\ 4 <= w /\ w <= 8),
                obj |-> obj(5 * w, w)]
          [] cls = "ModelB" -> [raised |-> FALSE, obj |-> obj(7, 1)]
          [] cls = "ModelC" -> [raised |-> FALSE, obj |-> obj(3 * w + a, 2)]

\* EnergyAreaEstimator.leak_power / .area
LeakPowerOf(obj) == obj._leak_power * obj.leak_scale
AreaOf(obj) == obj._area * obj.area_scale

\* obj.<a>(**kwargs): an action body wrapped by actionDynamicEnergy
CallAction(obj, a, kwargs) ==
    LET e == IF "energy" \in DOMAIN kwargs THEN kwargs["energy"].v ELSE 0
        body ==
          CASE a = "leak" ->
                 [raised |-> "time_period" \notin DOMAIN kwargs,
                  value |-> IF "time_period" \in DOMAIN kwargs
                            THEN LeakPowerOf(obj) * kwargs["time_period"].v
                            ELSE 0]
            [] a = "read" /\ obj.cls = "ModelA" ->
                 [raised |-> FALSE, value |-> 2 * obj.width]
            [] a = "read" /\ obj.cls = "ModelB" ->
                 [raised |-> FALSE, value |-> 4]
            [] a = "write" /\ obj.cls = "ModelB" ->
                 [raised |-> FALSE, value |-> 6 + e]
            [] OTHER -> [raised |-> TRUE, value |-> 0]
    IN  [raised |-> body.raised, value |-> body.value * obj.energy_scale]

----------------------------------------------------------------------------
(* estimator_wrapper.py: CallableFunction *)

\* CallableFunction.__init__: split the parameters by the defaults
CallableFunction(name, sig) ==
    LET n == Len(sig.args) - sig.defaults
    IN  [function_name |-> name,
         non_default_args |-> SubSeq(sig.args, 1, n),
         default_args |-> SubSeq(sig.args, n + 1, Len(sig.args))]

NoError == <<>>

\* get_error_message_for_non_default_arg_match: the first required
\* argument that kwargs.get(arg) finds to be None, else no error
ErrorMessageForNonDefaultArgMatch(f, kwargs) ==
    LET missing == {i \in DOMAIN f.non_default_args :
                      Get(kwargs, f.non_default_args[i], None) = None}
    IN  IF missing = {} THEN NoError
        ELSE LET i == CHOOSE j \in missing : \A k \in missing : j <= k
             IN  <<"is missing", f.non_default_args[i]>>

\* get_call_error_message
CallErrorMessage(f, name, kwargs) ==
    IF f.function_name # name
    THEN <<"does not match my name", name>>
    ELSE ErrorMessageForNonDefaultArgMatch(f, kwargs)

\* CallableFunction.call: the keyword arguments that reach the function
KwargsIncluded(f, kwargs) ==
    [k \in {x \in DOMAIN kwargs :
              x \in Range(f.non_default_args) \/ x \in Range(f.default_args)}
       |-> kwargs[k]]

\* CallableFunction.call: the warning logged when arguments are left over
UnusedWarning(f, kwargs, owner) ==
    IF DOMAIN kwargs # DOMAIN KwargsIncluded(f, kwargs)
    THEN << <<"Unused arguments", owner>> >>
    ELSE <<>>

----------------------------------------------------------------------------
(* estimator_wrapper.py: the query and the wrapper of a model class *)

NoAction == "None"

\* EnergyAreaQuery.__init__
EnergyAreaQuery(component_name, component_attributes, action_name, action_arguments, required_actions) ==
    [component_name |-> component_name,
     action_name |-> action_name,
     action_arguments |-> DropNone(action_arguments),
     component_attributes |-> DropNone(component_attributes),
     required_actions |-> required_actions]

\* EnergyAreaEstimatorWrapper.__init__
EnergyAreaModelWrapper(model_cls, name) ==
    [model_name |-> name,
     model_cls |-> model_cls,
     component_name |-> [i \in DOMAIN ClassComponentName(model_cls) |->
                           Lower(ClassComponentName(model_cls)[i])],
     priority |-> ClassPriority(model_cls),
     init_function |->
        CallableFunction("__init__", ClassInitSignature(model_cls)),
     actions |->
        [i \in DOMAIN ClassActionNames(model_cls) |->
           CallableFunction(ClassActionNames(model_cls)[i],
              ActionSignature(model_cls, ClassActionNames(model_cls)[i]))]
        \o << CallableFunction("leak", ActionSignature(model_cls, "leak")) >>]

\* _wrap_model: pools hold model classes
WrapModel(cls) == EnergyAreaModelWrapper(cls, cls)

\* get_action_names
GetActionNames(model) ==
    [i \in DOMAIN model.actions |-> model.actions[i].function_name]

\* get_component_names
GetComponentNames(model) == Range(model.component_name)

\* the name test of is_component_supported in the default, exact mode
ExactNameMatch(model, query) ==
    Lower(query.component_name) \in Range(model.component_name)

\* the name test in relaxed mode: underscores are ignored
RelaxedNameMatch(model, query) ==
    RemoveUnderscores(Lower(query.component_name)) \in
        {RemoveUnderscores(c) : c \in Range(model.component_name)}

\* is_component_supported: "no", "yes", or "raise" (EstimatorError with the
\* message of the missing constructor argument)
IsComponentSupported(model, query, relaxed) ==
    IF ~(IF relaxed THEN RelaxedNameMatch(model, query)
                    ELSE ExactNameMatch(model, query))
    THEN "no"
    ELSE IF CallErrorMessage(model.init_function, "__init__",
                             query.component_attributes) # NoError
    THEN "raise"
    ELSE "yes"

----------------------------------------------------------------------------
(* estimator_wrapper.py: Estimation.  The messages of an Estimation are a   *)
(* reference to a list; get_estimation's default argument makes it the one  *)
(* list object of the class whenever no list is passed.                     *)

NoObject == [cls |-> "None"]

\* FloatEstimation.get_estimation(value, success, model_name=...)
FloatEstimation(value, success, model_name) ==
    [type |-> "FloatEstimation", value |-> value, instance |-> NoObject,
     success |-> success, messages |-> "FloatEstimation",
     model_name |-> model_name]

\* EstimatorEstimation.get_estimation(value, success, model_name=...)
EstimatorEstimation(instance, success, model_name) ==
    [type |-> "EstimatorEstimation", value |-> 0, instance |-> instance,
     success |-> success, messages |-> "EstimatorEstimation",
     model_name |-> model_name]

\* Estimation.add_messages: self.messages += messages, in place
AddMessages(heap, e, messages) ==
    [heap EXCEPT ![e.messages] = @ \o messages]

\* Estimation.fail sets success; its add_messages is AddMessages
Fail(e) == [e EXCEPT !.success = FALSE]

\* Estimation.lastmessage
LastMessage(heap, e) ==
    IF heap[e.messages] # <<>>
    THEN heap[e.messages][Len(heap[e.messages])]
    ELSE <<"No messages found.">>

\* FloatEstimation.__mul__ with a plain number
Mul(e, other) == [e EXCEPT !.value = e.value * other]

----------------------------------------------------------------------------
(* estimator_wrapper.py: the estimate functions of the wrapper.  Each       *)
(* yields whether an exception left it, the Estimation, what it logged to   *)
(* the wrapper's logger, and what it did to the model class.                *)

\* the message a model's action body logs (tutorial: mac)
ActionLog(obj, a) ==
    IF obj.cls = "ModelA" /\ a = "read"
    THEN << <<"is estimating energy", "ModelA">> >>
    ELSE <<>>

\* get_initialized_subclass
GetInitializedSubclass(model, query) ==
    LET kw == KwargsIncluded(model.init_function, query.component_attributes)
        c == Construct(model.model_cls, kw)
    IN  [raised |-> c.raised, obj |-> c.obj, init_kwargs |-> kw,
         log |-> UnusedWarning(model.init_function,
                               query.component_attributes, model.model_name)]

Outcome(raised, e, log, init, invoked, action_kwargs) ==
    [raised |-> raised, e |-> e, log |-> log, constructed |-> TRUE,
     init_kwargs |-> init.init_kwargs, invoked |-> invoked,
     action_kwargs |-> action_kwargs]

\* get_matching_actions: empty when AttributeError is raised
GetMatchingActions(model, query) ==
    SelectSeq(model.actions,
              LAMBDA a : CallErrorMessage(a, query.action_name,
                                          query.action_arguments) = NoError)

\* estimate_energy, after get_initialized_subclass has yielded init
EstimateEnergyInitialized(model, query, init) ==
    LET supported_actions == GetMatchingActions(model, query)
        f == supported_actions[1]
        kw == KwargsIncluded(f, query.action_arguments)
        r == CallAction(init.obj, query.action_name, kw)
        log == init.log
               \o UnusedWarning(f, query.action_arguments, model.model_name)
               \o ActionLog(init.obj, query.action_name)
        none == FloatEstimation(0, FALSE, "None")
    IN  IF init.raised
        THEN Outcome(TRUE, none, init.log, init, FALSE, EmptyDict)
        ELSE IF supported_actions = <<>>
        THEN Outcome(TRUE, none, init.log, init, FALSE, EmptyDict)
        ELSE IF r.raised
        THEN Outcome(TRUE, none, log, init, TRUE, kw)
        ELSE Outcome(FALSE, FloatEstimation(r.value, TRUE, "None"), log,
                     init, TRUE, kw)

\* estimate_energy
EstimateEnergy(model, query) ==
    EstimateEnergyInitialized(model, query,
                              GetInitializedSubclass(model, query))

\* the outcome of an estimate function that only reads the initialized
\* model: e is the Estimation it builds when the constructor did not raise
InitializedOutcome(init, e) ==
    Outcome(init.raised, e, init.log, init, FALSE, EmptyDict)

\* the Estimation that estimate_area builds
AreaEstimation(model, init) ==
    InitializedOutcome(
        init, FloatEstimation(AreaOf(init.obj), TRUE, model.model_name))

\* estimate_area
EstimateArea(model, query) ==
    AreaEstimation(model, GetInitializedSubclass(model, query))

\* the Estimation that estimate_leak_power builds
LeakPowerEstimation(model, init) ==
    InitializedOutcome(
        init, FloatEstimation(LeakPowerOf(init.obj), TRUE, model.model_name))

\* estimate_leak_power
EstimateLeakPower(model, query) ==
    LeakPowerEstimation(model, GetInitializedSubclass(model, query))

\* the Estimation that the callfunc of _select_model builds
ModelEstimation(model, init) ==
    InitializedOutcome(
        init, EstimatorEstimation(init.obj, TRUE, model.model_name))

\* the callfunc of _select_model
InitializeModel(model, query) ==
    ModelEstimation(model, GetInitializedSubclass(model, query))

----------------------------------------------------------------------------
(* select_models.py: one trial of one model *)

\* what a trial did to the model class, kept for the properties
Trial(model, r, e) ==
    [model |-> model.model_name, priority |-> model.priority,
     raised |-> r.raised, constructed |-> r.constructed, init_kwargs |-> r.init_kwargs,
     invoked |-> r.invoked, action_kwargs |-> r.action_kwargs,
     success |-> e.success]

\* _call_model: the estimation does not match the requested model
WrongModel(attrs, name) == Get(attrs, "model", StrV(name)) # StrV(name)

\* the min_priority test with its comparison turned around
LowPriorityReversed(attrs, model) ==
    /\ "min_priority" \in DOMAIN attrs
    /\ attrs["min_priority"].v < ClassPriority(model.model_cls)

\* _call_model: the model does not meet the requested min_priority
LowPriority(attrs, model) ==
    /\ "min_priority" \in DOMAIN attrs
    /\ attrs["min_priority"].v > ClassPriority(model.model_cls)

\* _call_model, given the outcome r of target_func(query).  logger is what
\* is left in the model's logger when _call_model returns.
CallModel(model, query, r, heap) ==
    LET name == model.model_name
        attrs == query.component_attributes
        failed == FloatEstimation(0, FALSE, name)
        e0 == [r.e EXCEPT !.model_name = name]
        h0 == AddMessages(heap, e0, r.log)
        wrong_model == WrongModel(attrs, name)
        e1 == IF wrong_model THEN Fail(e0) ELSE e0
        h1 == IF wrong_model
              THEN AddMessages(h0, e0,
                      << <<"did not match requested model", name>> >>)
              ELSE h0
        low_priority == LowPriority(attrs, model)
        e2 == IF low_priority THEN Fail(e1) ELSE e1
        h2 == IF low_priority
              THEN AddMessages(h1, e1,
                      << <<"did not meet min_priority", name>> >>)
              ELSE h1
    IN  IF r.raised
        THEN [e |-> failed,
              heap |-> AddMessages(heap, failed, << <<"Traceback", name>> >>),
              logger |-> r.log \o << <<"Error", name>> >>,
              trial |-> Trial(model, r, failed)]
        ELSE [e |-> e2, heap |-> h2, logger |-> <<>>,
              trial |-> Trial(model, r, e2)]

\* the lines shared by the numeric estimation functions, c being what
\* _call_model returned: if e and e.success [and scaled]:
\* e.add_messages("Multiplying ..."); e *= n_instances
\* ("if e" is false for the float 0)
MultiplyByInstances(c, query, scaled) ==
    LET n == Get(query.component_attributes, "n_instances", IntV(1)).v
    IN  IF c.e.value # 0 /\ c.e.success /\ scaled
        THEN [c EXCEPT !.e = Mul(c.e, n),
                       !.heap = AddMessages(c.heap, c.e,
                                   << <<"Multiplying by n_instances", n>> >>)]
        ELSE c

\* _get_energy_estimation scaling the energy of every action
GetEnergyEstimationAllActions(model, query, heap) ==
    MultiplyByInstances(
        CallModel(model, query, EstimateEnergy(model, query), heap),
        query, TRUE)

\* _get_energy_estimation: only the energy of the leak action is scaled
GetEnergyEstimation(model, query, heap) ==
    MultiplyByInstances(
        CallModel(model, query, EstimateEnergy(model, query), heap),
        query, query.action_name = "leak")

\* _get_area_estimation
GetAreaEstimation(model, query, heap) ==
    MultiplyByInstances(
        CallModel(model, query, EstimateArea(model, query), heap),
        query, TRUE)

\* _get_leak_power_estimation
GetLeakPowerEstimation(model, query, heap) ==
    MultiplyByInstances(
        CallModel(model, query, EstimateLeakPower(model, query), heap),
        query, TRUE)

\* the test of the required actions looking at the first of them only
UnsupportedActionsFirstOnly(model, query) ==
    {i \in DOMAIN query.required_actions :
       /\ i = 1
       /\ query.required_actions[i] \notin Range(GetActionNames(model))}

\* _select_model: the indexes of the required actions the model lacks
UnsupportedActions(model, query) ==
    {i \in DOMAIN query.required_actions :
       query.required_actions[i] \notin Range(GetActionNames(model))}

\* _select_model
SelectModel(model, query, heap) ==
    LET name == model.model_name
        unsupported == UnsupportedActions(model, query)
        first == CHOOSE i \in unsupported : \A j \in unsupported : i <= j
        e == EstimatorEstimation(NoObject, FALSE, name)
        untouched == [raised |-> FALSE, constructed |-> FALSE,
                      init_kwargs |-> EmptyDict, invoked |-> FALSE,
                      action_kwargs |-> EmptyDict]
    IN  IF unsupported # {}
        THEN [e |-> e,
              heap |-> AddMessages(heap, e,
                         << <<"does not support action", name,
                              query.required_actions[first]>> >>),
              logger |-> <<>>,
              trial |-> Trial(model, untouched, e)]
        ELSE CallModel(model, query, InitializeModel(model, query), heap)

\* est_func, chosen by the target
EstFunc(target, model, query, heap) ==
    CASE target = "energy" -> GetEnergyEstimation(model, query, heap)
      [] target = "area" -> GetAreaEstimation(model, query, heap)
      [] target = "model" -> SelectModel(model, query, heap)
      [] target = "leak_power" -> GetLeakPowerEstimation(model, query, heap)

----------------------------------------------------------------------------
(* select_models.py: _get_best_estimate *)

\* the keys deleted from the attributes and the action arguments
DroppedKeys == {"area", "energy", "area_scale", "energy_scale"}

DropKeys(query) ==
    [query EXCEPT !.component_attributes = Without(@, DroppedKeys),
                  !.action_arguments = Without(@, DroppedKeys)]

\* _get_supported_models: the supported models and those whose
\* is_component_supported raised, both in the order of the pool
GetSupportedModels(models, query, relaxed) ==
    [supported_models |->
        SelectSeq(models,
                  LAMBDA m : IsComponentSupported(m, query, relaxed) = "yes"),
     init_errors |->
        SelectSeq(models,
                  LAMBDA m : IsComponentSupported(m, query, relaxed) = "raise")]

\* mutant of TrialLoop: no break, the last successful trial is kept
RECURSIVE TrialLoopNoBreak(_, _, _, _, _, _, _)
TrialLoopNoBreak(supported_models, i, query, target, heap, estimations, trials) ==
    IF i > Len(supported_models)
    THEN [found |-> FALSE, estimation |-> FloatEstimation(0, FALSE, "None"),
          estimations |-> estimations, trials |-> trials, heap |-> heap]
    ELSE LET model == supported_models[i]
             t == EstFunc(target, model, query, heap)
             rest == TrialLoopNoBreak(supported_models, i + 1, query, target,
                                      t.heap, estimations,
                                      Append(trials, t.trial))
         IN  IF ~t.e.success
             THEN TrialLoopNoBreak(supported_models, i + 1, query, target,
                                   AddMessages(t.heap, t.e, t.logger),
                                   Append(estimations,
                                          [priority |-> model.priority,
                                           e |-> t.e]),
                                   Append(trials, t.trial))
             ELSE IF rest.found THEN rest
             ELSE [rest EXCEPT !.found = TRUE, !.estimation = t.e]

\* mutant of TrialLoop: no else branch, the last failed estimation stays
RECURSIVE TrialLoopNoElse(_, _, _, _, _, _, _)
TrialLoopNoElse(supported_models, i, query, target, heap, estimations, trials) ==
    IF i > Len(supported_models)
    THEN [found |-> estimations # <<>>,
          estimation |-> IF estimations # <<>>
                         THEN estimations[Len(estimations)].e
                         ELSE FloatEstimation(0, FALSE, "None"),
          estimations |-> estimations, trials |-> trials, heap |-> heap]
    ELSE LET model == supported_models[i]
             t == EstFunc(target, model, query, heap)
         IN  IF ~t.e.success
             THEN TrialLoopNoElse(supported_models, i + 1, query, target,
                                  AddMessages(t.heap, t.e, t.logger),
                                  Append(estimations,
                                         [priority |-> model.priority,
                                          e |-> t.e]),
                                  Append(trials, t.trial))
             ELSE [found |-> TRUE, estimation |-> t.e,
                   estimations |-> estimations,
                   trials |-> Append(trials, t.trial), heap |-> t.heap]

\* mutant of TrialLoop: an exception in a trial ends the loop
RECURSIVE TrialLoopAborts(_, _, _, _, _, _, _)
TrialLoopAborts(supported_models, i, query, target, heap, estimations, trials) ==
    IF i > Len(supported_models)
    THEN [found |-> FALSE, estimation |-> FloatEstimation(0, FALSE, "None"),
          estimations |-> estimations, trials |-> trials, heap |-> heap]
    ELSE LET model == supported_models[i]
             t == EstFunc(target, model, query, heap)
             failed == Append(estimations,
                              [priority |-> model.priority, e |-> t.e])
         IN  IF t.trial.raised
             THEN [found |-> FALSE,
                   estimation |-> FloatEstimation(0, FALSE, "None"),
                   estimations |-> failed,
                   trials |-> Append(trials, t.trial),
                   heap |-> AddMessages(t.heap, t.e, t.logger)]
             ELSE IF ~t.e.success
             THEN TrialLoopAborts(supported_models, i + 1, query, target,
                                  AddMessages(t.heap, t.e, t.logger), failed,
                                  Append(trials, t.trial))
             ELSE [found |-> TRUE, estimation |-> t.e,
                   estimations |-> estimations,
                   trials |-> Append(trials, t.trial), heap |-> t.heap]

\* the for loop over supported_models, from index i on; its else branch
\* leaves estimation = None (found = FALSE)
RECURSIVE TrialLoop(_, _, _, _, _, _, _)
\* the body of the loop after est_func returned t for supported_models[i]
LoopBody(supported_models, i, query, target, estimations, trials, t) ==
    IF ~t.e.success
    THEN TrialLoop(supported_models, i + 1, query, target,
                   AddMessages(t.heap, t.e, t.logger),
                   Append(estimations,
                          [priority |-> supported_models[i].priority,
                           e |-> t.e]),
                   Append(trials, t.trial))
    ELSE [found |-> TRUE, estimation |-> t.e, estimations |-> estimations,
          trials |-> Append(trials, t.trial), heap |-> t.heap]

TrialLoop(supported_models, i, query, target, heap, estimations, trials) ==
    IF i > Len(supported_models)
    THEN [found |-> FALSE, estimation |-> FloatEstimation(0, FALSE, "None"),
          estimations |-> estimations, trials |-> trials, heap |-> heap]
    ELSE LoopBody(supported_models, i, query, target, estimations, trials,
                  EstFunc(target, supported_models[i], query, heap))

NamesOf(models) == [i \in DOMAIN models |-> models[i].model_name]

\* the text of the EstimatorError raised when no model is supported
\* its "Did you mean" part, near_supported being the models that the
\* relaxed name selection supports
DidYouMean(relaxed, near_supported) ==
    IF ~relaxed /\ near_supported # <<>>
    THEN << <<"Did you mean">> >>
         \o [i \in DOMAIN near_supported |->
               <<"suggestion", near_supported[i].model_name>>]
    ELSE <<>>

\* the error text without its branch for the initialization errors
ErrorTextNoInitErrors(models, init_errors, did_you_mean) ==
    << <<"is not supported by any models",
         UNION {GetComponentNames(m) : m \in Range(models)}>> >>
    \o did_you_mean

ErrorText(models, init_errors, did_you_mean) ==
    IF init_errors # <<>>
    THEN did_you_mean
         \o << <<"could not be initialized">> >>
         \o [i \in DOMAIN init_errors |->
               <<"init error", init_errors[i].model_name>>]
    ELSE << <<"is not supported by any models",
              UNION {GetComponentNames(m) : m \in Range(models)}>> >>
         \o did_you_mean

NoSupportedModelText(models, query, relaxed, init_errors) ==
    ErrorText(models, init_errors,
              DidYouMean(relaxed,
                         GetSupportedModels(models, query, TRUE)
                             .supported_models))

\* fail_reasons of the RuntimeError
FailReasons(estimations, heap) ==
    [i \in DOMAIN estimations |->
       [model_name |-> estimations[i].e.model_name,
        priority |-> estimations[i].priority,
        lastmessage |-> LastMessage(heap, estimations[i].e)]]

\* full_logs of the RuntimeError
FullLogs(estimations, heap) ==
    [i \in DOMAIN estimations |->
       IF heap[estimations[i].e.messages] = <<>> THEN <<>>
       ELSE << [model_name |-> estimations[i].e.model_name,
                priority |-> estimations[i].priority,
                messages |-> heap[estimations[i].e.messages]] >>]

NoEstimation == FloatEstimation(0, FALSE, "None")

Raise(error, text, supported, loop, heap) ==
    [outcome |-> "raise", error |-> error, kind |-> "None",
     estimation |-> NoEstimation, text |-> text,
     supported_models |-> supported.supported_models,
     init_errors |-> supported.init_errors,
     estimations |-> loop.estimations, trials |-> loop.trials,
     fail_reasons |-> FailReasons(loop.estimations, heap),
     full_logs |-> FullLogs(loop.estimations, heap), heap |-> heap]

Return(kind, supported, loop) ==
    [outcome |-> "return", error |-> "None", kind |-> kind,
     estimation |-> loop.estimation, text |-> <<>>,
     supported_models |-> supported.supported_models,
     init_errors |-> supported.init_errors,
     estimations |-> loop.estimations, trials |-> loop.trials,
     fail_reasons |-> FailReasons(loop.estimations, loop.heap),
     full_logs |-> FullLogs(loop.estimations, loop.heap), heap |-> loop.heap]

\* no model has been tried
NoTrials == [estimations |-> <<>>, trials |-> <<>>]

\* _get_best_estimate after the loop over the supported models
AfterLoop(target, return_estimation_object, supported, loop) ==
    IF return_estimation_object /\ loop.found
    THEN Return("Estimation", supported, loop)
    ELSE IF loop.found /\ loop.estimation.success
    THEN Return(IF target = "model" THEN "model" ELSE "Estimation",
                supported, loop)
    ELSE Raise("RuntimeError", << <<"Can not find a model", target>> >>,
               supported, loop, loop.heap)

\* _get_best_estimate without its test of the empty pool
AfterSupportedNoEmptyTest(models, query, target, return_estimation_object, relaxed, heap, supported) ==
    IF supported.supported_models = <<>>
    THEN Raise("EstimatorError",
               NoSupportedModelText(models, query, relaxed,
                                    supported.init_errors),
               supported, NoTrials, heap)
    ELSE AfterLoop(target, return_estimation_object, supported,
                   TrialLoop(supported.supported_models, 1, query, target,
                             heap, <<>>, <<>>))

\* _get_best_estimate after _get_supported_models yielded supported
AfterSupported(models, query, target, return_estimation_object, relaxed, heap, supported) ==
    IF supported.supported_models = <<>>
    THEN IF models = <<>>
         THEN Raise("EstimatorError", << <<"No models found">> >>,
                    supported, NoTrials, heap)
         ELSE Raise("EstimatorError",
                    NoSupportedModelText(models, query, relaxed,
                                         supported.init_errors),
                    supported, NoTrials, heap)
    ELSE AfterLoop(target, return_estimation_object, supported,
                   TrialLoop(supported.supported_models, 1, query, target,
                             heap, <<>>, <<>>))

\* _get_best_estimate on the wrapped models and the query without the
\* dropped keys
BestEstimate(models, query, target, return_estimation_object, relaxed, heap) ==
    AfterSupported(models, query, target, return_estimation_object, relaxed,
                   heap, GetSupportedModels(models, query, relaxed))

GetBestEstimate(query0, target, pool, return_estimation_object, relaxed, heap) ==
    BestEstimate([i \in DOMAIN pool |-> WrapModel(pool[i])],
                 DropKeys(query0), target, return_estimation_object, relaxed,
                 heap)

----------------------------------------------------------------------------
(* select_models.py: the public operations *)

get_energy(component_name, component_attributes, action_name, action_arguments, models, return_estimation_object, relaxed, heap) ==
    GetBestEstimate(
        EnergyAreaQuery(Lower(component_name), component_attributes,
                        action_name, action_arguments, <<>>),
        "energy", models, return_estimation_object, relaxed, heap)

get_area(component_name, component_attributes, models, return_estimation_object, relaxed, heap) ==
    GetBestEstimate(
        EnergyAreaQuery(Lower(component_name), component_attributes,
                        NoAction, EmptyDict, <<>>),
        "area", models, return_estimation_object, relaxed, heap)

get_leak_power(component_name, component_attributes, models, return_estimation_object, relaxed, heap) ==
    GetBestEstimate(
        EnergyAreaQuery(Lower(component_name), component_attributes,
                        NoAction, EmptyDict, <<>>),
        "leak_power", models, return_estimation_object, relaxed, heap)

get_model(component_name, component_attributes, required_actions, models, return_estimation_object, relaxed, heap) ==
    GetBestEstimate(
        EnergyAreaQuery(Lower(component_name), component_attributes,
                        NoAction, EmptyDict, required_actions),
        "model", models, return_estimation_object, relaxed, heap)

----------------------------------------------------------------------------
(* The requests a caller makes *)

AttributeValues(k) ==
    CASE k = "width" -> {None, IntV(8), IntV(99)}
      [] k = "model" -> {StrV("ModelB")}
      [] k = "min_priority" -> {IntV(6)}
      [] k = "n_instances" -> {IntV(3)}
      [] k = "area" -> {IntV(1)}

\* width, at most one selection hint, and at most one of n_instances, area
AttributeKeySets ==
    { ks \in SUBSET {"width", "model", "min_priority", "n_instances", "area"} :
        /\ ~({"model", "min_priority"} \subseteq ks)
        /\ ~({"n_instances", "area"} \subseteq ks) }

ComponentAttributes ==
    UNION { { d \in [ks -> UNION {AttributeValues(k) : k \in ks}] :
                \A k \in ks : d[k] \in AttributeValues(k) } :
            ks \in AttributeKeySets }

ComponentNames == { <<"A", "d">>, <<"a", "_", "d">> }

\* action name and action arguments of the energy requests
ActionCalls ==
    { [action_name |-> "read", action_arguments |-> EmptyDict],
      [action_name |-> "write",
       action_arguments |-> [k \in {"energy"} |-> IntV(1)]],
      [action_name |-> "leak",
       action_arguments |-> [k \in {"time_period"} |-> IntV(2)]] }

RequiredActions == { <<>>, <<"leak", "write">> }

\* lists of distinct model classes, at most MaxPool long
Pools ==
    UNION { { p \in [1..n -> ModelClasses] :
                \A i, j \in 1..n : i # j => p[i] # p[j] } : n \in 0..MaxPool }

TrailLength == Len(default_messages["FloatEstimation"])
               + Len(default_messages["EstimatorEstimation"])

NoCall == [op |-> "None"]
NoResult == [outcome |-> "None"]

Init ==
    /\ pc = "idle"
    /\ call = NoCall
    /\ result = NoResult
    /\ default_messages = [FloatEstimation |-> <<>>,
                           EstimatorEstimation |-> <<>>]
    /\ objects = <<>>
    /\ stack = <<>>
    /\ history = <<>>

Request(op, name, attrs, action, args, required, models, reo, relaxed) ==
    [op |-> op, component_name |-> name, component_attributes |-> attrs,
     action_name |-> action, action_arguments |-> args,
     required_actions |-> required, models |-> models,
     return_estimation_object |-> reo, relaxed |-> relaxed]

Finish(r) ==
    /\ result' = r
    /\ default_messages' = r.heap
    /\ pc' = "done"
    /\ UNCHANGED model_vars

GetEnergy ==
    /\ pc = "idle"
    /\ TrailLength <= MaxTrail
    /\ \E name \in ComponentNames, attrs \in ComponentAttributes,
          a \in ActionCalls, models \in Pools, reo \in BOOLEAN,
          relaxed \in BOOLEAN :
          /\ call' = Request("get_energy", name, attrs, a.action_name,
                             a.action_arguments, <<>>, models, reo, relaxed)
          /\ Finish(get_energy(name, attrs, a.action_name,
                               a.action_arguments, models, reo, relaxed,
                               default_messages))

GetArea ==
    /\ pc = "idle"
    /\ TrailLength <= MaxTrail
    /\ \E name \in ComponentNames, attrs \in ComponentAttributes,
          models \in Pools, reo \in BOOLEAN, relaxed \in BOOLEAN :
          /\ call' = Request("get_area", name, attrs, NoAction, EmptyDict,
                             <<>>, models, reo, relaxed)
          /\ Finish(get_area(name, attrs, models, reo, relaxed,
                             default_messages))

GetLeakPower ==
    /\ pc = "idle"
    /\ TrailLength <= MaxTrail
    /\ \E name \in ComponentNames, attrs \in ComponentAttributes,
          models \in Pools, reo \in BOOLEAN, relaxed \in BOOLEAN :
          /\ call' = Request("get_leak_power", name, attrs, NoAction,
                             EmptyDict, <<>>, models, reo, relaxed)
          /\ Finish(get_leak_power(name, attrs, models, reo, relaxed,
                                   default_messages))

GetModel ==
    /\ pc = "idle"
    /\ TrailLength <= MaxTrail
    /\ \E name \in ComponentNames, attrs \in ComponentAttributes,
          required \in RequiredActions, models \in Pools, reo \in BOOLEAN,
          relaxed \in BOOLEAN :
          /\ call' = Request("get_model", name, attrs, NoAction, EmptyDict,
                             required, models, reo, relaxed)
          /\ Finish(get_model(name, attrs, required, models, reo, relaxed,
                              default_messages))

\* the caller takes the result; query and Estimation are discarded, the
\* default lists of the Estimation classes live on
ReturnToCaller ==
    /\ pc = "done"
    /\ pc' = "idle"
    /\ call' = NoCall
    /\ result' = NoResult
    /\ UNCHANGED <<default_messages, model_vars>>

Next ==
    \/ GetEnergy
    \/ GetArea
    \/ GetLeakPower
    \/ GetModel
    \/ ReturnToCaller

Spec == Init /\ [][Next]_vars

----------------------------------------------------------------------------
(* Properties of a finished request *)

Done == pc = "done"

Returned == Done /\ result.outcome = "return"

Target ==
    CASE call.op = "get_energy" -> "energy"
      [] call.op = "get_area" -> "area"
      [] call.op = "get_leak_power" -> "leak_power"
      [] call.op = "get_model" -> "model"

\* the query of the request as the trials see it
CallQuery ==
    DropKeys(EnergyAreaQuery(Lower(call.component_name),
                             call.component_attributes, call.action_name,
                             call.action_arguments, call.required_actions))

EmptyHeap == [FloatEstimation |-> <<>>, EstimatorEstimation |-> <<>>]

\* the model classes of the pool that passed the filter of the request
EligibleClasses == {result.supported_models[i].model_cls :
                       i \in DOMAIN result.supported_models}

\* a trial of this class alone on the request's query succeeds
CanSucceed(cls) ==
    EstFunc(Target, WrapModel(cls), CallQuery, EmptyHeap).e.success

Winner == result.trials[Len(result.trials)].model

\* C1: whenever the request returns, no eligible candidate of the pool that
\* can succeed has a higher priority than the candidate the result is
\* attributed to, in whatever order the pool lists them.
C1_HighestPriorityWins ==
    Returned =>
        \A cls \in EligibleClasses :
            CanSucceed(cls) =>
                ClassPriority(cls) <= ClassPriority(result.estimation.model_name)

\* C2: the eligible candidates are trialed one at a time in list order up to
\* the first success: all trials before the last failed, the last one
\* succeeded, the candidates behind it have no trial, and the result is the
\* estimation of the winner's own trial, attributed to the winner (the live
\* instance for get_model, the numeric Estimation otherwise).
C2_StopAtFirstSuccess ==
    Returned =>
        LET n == Len(result.trials)
            own == EstFunc(Target, WrapModel(Winner), CallQuery, EmptyHeap)
        IN  /\ n >= 1
            /\ n <= Len(result.supported_models)
            /\ \A i \in 1..n :
                  result.trials[i].model = result.supported_models[i].model_name
            /\ \A i \in 1..(n - 1) : ~result.trials[i].success
            /\ result.trials[n].success
            /\ result.estimation.success
            /\ result.estimation.model_name = Winner
            /\ result.estimation = own.e
            /\ IF Target = "model"
               THEN /\ result.estimation.instance.cls = Winner
                    /\ result.kind = IF call.return_estimation_object
                                     THEN "Estimation" ELSE "model"
               ELSE /\ result.kind = "Estimation"
                    /\ result.estimation.type = "FloatEstimation"

\* C2 witness: the first eligible candidate wins and a second eligible
\* candidate is left without a trial
C2_Witness ==
    /\ Returned
    /\ Len(result.trials) = 1
    /\ Len(result.supported_models) = 2

\* every eligible candidate of the request fails its trial
AllEligibleFail ==
    /\ Done
    /\ result.supported_models # <<>>
    /\ \A cls \in EligibleClasses : ~CanSucceed(cls)

\* C3: results are all-or-nothing.  When there are eligible candidates and
\* all of them fail, the request returns nothing, also with
\* return_estimation_object, and raises the RuntimeError whose fail reasons
\* name every eligible candidate with its priority; what a request returns
\* is always a successful estimation.
C3_AllOrNothing ==
    /\ Returned => result.estimation.success
    /\ AllEligibleFail =>
          /\ result.outcome = "raise"
          /\ result.error = "RuntimeError"
          /\ result.kind = "None"
          /\ \A i \in DOMAIN result.supported_models :
                \E j \in DOMAIN result.fail_reasons :
                   /\ result.fail_reasons[j].model_name
                         = result.supported_models[i].model_name
                   /\ result.fail_reasons[j].priority
                         = ClassPriority(result.supported_models[i].model_cls)

\* C3 witness: two eligible candidates both fail and the caller asked for
\* the estimation object
C3_Witness ==
    /\ AllEligibleFail
    /\ call.return_estimation_object
    /\ Len(result.supported_models) = 2

\* C4: a trial that an exception left is recorded as a failed estimation
\* attributed to its candidate and the next eligible candidate is trialed;
\* whenever some eligible candidate can succeed the request returns.
C4_ExceptionsDoNotAbort ==
    Done /\ result.supported_models # <<>> =>
        /\ \A i \in DOMAIN result.trials :
              result.trials[i].raised =>
                 /\ ~result.trials[i].success
                 /\ i \in DOMAIN result.estimations
                 /\ ~result.estimations[i].e.success
                 /\ result.estimations[i].e.model_name = result.trials[i].model
                 /\ i < Len(result.supported_models) => i < Len(result.trials)
        /\ (\E cls \in EligibleClasses : CanSucceed(cls))
              => result.outcome = "return"

\* C4 witness: the constructor or the action of the first candidate raised
\* and the second candidate won
C4_Witness ==
    /\ Returned
    /\ Len(result.trials) = 2
    /\ result.trials[1].raised
    /\ result.trials[1].constructed
    /\ result.trials[2].success

\* the query's component name case-insensitively equals an alias of cls
NameEquals(cls, name) ==
    \E i \in DOMAIN ClassComponentName(cls) :
        Lower(ClassComponentName(cls)[i]) = Lower(name)

\* every constructor parameter of cls without a default has a non-None
\* value in attrs
RequiredPresent(cls, attrs) ==
    \A i \in 1..(Len(ClassInitSignature(cls).args)
                   - ClassInitSignature(cls).defaults) :
        /\ ClassInitSignature(cls).args[i] \in DOMAIN attrs
        /\ attrs[ClassInitSignature(cls).args[i]] # None

\* the attributes of the request as they are offered to the constructors
OfferedAttributes == Without(call.component_attributes, DroppedKeys)

\* the request carries no selection hint and names an operation that both
\* ModelA and ModelB support
PlainRequest ==
    /\ Done
    /\ call.models = <<"ModelA", "ModelB">>
    /\ Lower(call.component_name) = <<"a", "d">>
    /\ DOMAIN call.component_attributes \subseteq {"width", "n_instances"}
    /\ call.op \in {"get_area", "get_leak_power"}

\* C5: a candidate of the pool is eligible for trial iff the component name
\* of the query case-insensitively equals one of its aliases and every
\* constructor parameter without a default has a non-None value in the
\* component attributes.  With the pool [ModelA, ModelB] a request without
\* width is answered by ModelB and a request with width = 8 by ModelA.
C5_EligibleIffNameAndParameters ==
    /\ Done =>
          \A i \in DOMAIN call.models :
              (call.models[i] \in EligibleClasses) <=>
                  /\ NameEquals(call.models[i], call.component_name)
                  /\ RequiredPresent(call.models[i], OfferedAttributes)
    /\ PlainRequest =>
          /\ Returned
          /\ Get(call.component_attributes, "width", None) = None
                => result.estimation.model_name = "ModelB"
          /\ Get(call.component_attributes, "width", None) = IntV(8)
                => result.estimation.model_name = "ModelA"

\* the messages of the list that the estimation of trial i refers to
TrialMessages(i) == Range(result.heap[result.estimations[i].e.messages])

\* the candidate of trial i violates a selection hint of the request
ViolatesHint(i) ==
    \/ /\ "model" \in DOMAIN call.component_attributes
       /\ call.component_attributes["model"] # StrV(result.trials[i].model)
    \/ /\ "min_priority" \in DOMAIN call.component_attributes
       /\ call.component_attributes["min_priority"].v
             > ClassPriority(result.trials[i].model)

\* C6: every estimation that a request returns satisfies the selection
\* hints of the query: the attribution equals the requested model name and
\* the winner's priority is not below min_priority.  A candidate whose call
\* succeeded but which violates a hint is failed with a reason string and
\* the next eligible candidate is trialed.
C6_HintsRespected ==
    /\ Returned =>
          /\ result.estimation.success
          /\ "model" \in DOMAIN call.component_attributes =>
                call.component_attributes["model"]
                   = StrV(result.estimation.model_name)
          /\ "min_priority" \in DOMAIN call.component_attributes =>
                ClassPriority(result.estimation.model_name)
                   >= call.component_attributes["min_priority"].v
    /\ Done =>
          \A i \in DOMAIN result.trials :
              (~result.trials[i].raised /\ result.trials[i].constructed
                 /\ ViolatesHint(i)) =>
                  /\ ~result.trials[i].success
                  /\ i \in DOMAIN result.estimations
                  /\ ~result.estimations[i].e.success
                  /\ \/ <<"did not match requested model",
                           result.trials[i].model>> \in TrialMessages(i)
                     \/ <<"did not meet min_priority",
                           result.trials[i].model>> \in TrialMessages(i)
                  /\ i < Len(result.supported_models)
                        => i < Len(result.trials)

\* C6 witness: the call of the first candidate succeeded, the candidate is
\* not the requested model, and the second candidate is returned
C6_Witness ==
    /\ Returned
    /\ "model" \in DOMAIN call.component_attributes
    /\ Len(result.trials) = 2
    /\ ~result.trials[1].raised
    /\ result.trials[1].constructed
    /\ ~result.trials[1].success
    /\ result.estimation.model_name = "ModelB"

\* the required actions that the class of trial i does not declare
MissingActions(i) ==
    {a \in Range(call.required_actions) :
        a \notin Range(ClassActionNames(result.trials[i].model))}

\* C7: in get_model a candidate that lacks a required action is neither
\* instantiated nor invoked, its trial fails with a message naming the
\* unsupported action, and the model that get_model returns supports every
\* required action.
C7_RequiredActions ==
    (Done /\ call.op = "get_model") =>
        /\ \A i \in DOMAIN result.trials :
              MissingActions(i) # {} =>
                  /\ ~result.trials[i].constructed
                  /\ ~result.trials[i].invoked
                  /\ ~result.trials[i].success
                  /\ \E a \in MissingActions(i) :
                        <<"does not support action", result.trials[i].model,
                          a>> \in TrialMessages(i)
        /\ Returned =>
              /\ result.estimation.instance.cls = result.estimation.model_name
              /\ Range(call.required_actions) \subseteq
                    Range(ClassActionNames(result.estimation.model_name))

\* C7 witness: the first candidate lacks a required action and is left
\* untouched, the second is returned
C7_Witness ==
    /\ Returned
    /\ call.op = "get_model"
    /\ Len(result.trials) = 2
    /\ MissingActions(1) # {}
    /\ ~result.trials[1].constructed

\* what the request of the call yields when n_instances is taken out of its
\* component attributes
WithoutInstances ==
    GetBestEstimate(
        EnergyAreaQuery(Lower(call.component_name),
                        Without(call.component_attributes, {"n_instances"}),
                        call.action_name, call.action_arguments,
                        call.required_actions),
        Target, call.models, call.return_estimation_object, call.relaxed,
        EmptyHeap)

\* area, leak power and the energy of the leak action scale with n_instances
ScaledByInstances ==
    \/ call.op \in {"get_area", "get_leak_power"}
    \/ call.op = "get_energy" /\ call.action_name = "leak"

\* a numeric request with n_instances in its attributes has returned
ReturnedWithInstances ==
    /\ Returned
    /\ call.op # "get_model"
    /\ "n_instances" \in DOMAIN call.component_attributes

SelectionOnlyKeys ==
    {"model", "min_priority", "n_instances", "area", "energy", "area_scale",
     "energy_scale"}

\* C9: no constructor and no action body of a candidate receives a
\* selection-only key (model, min_priority, n_instances, area, energy, the
\* scale overrides) as a keyword argument, whatever parameters it declares.
C9_SelectionKeysNeverPassed ==
    Done =>
        \A i \in DOMAIN result.trials :
            /\ DOMAIN result.trials[i].init_kwargs \cap SelectionOnlyKeys = {}
            /\ DOMAIN result.trials[i].action_kwargs \cap SelectionOnlyKeys
                  = {}

\* C10: for every call of a public operation, a candidate whose aliases
\* match the requested name only when underscores are ignored is never
\* trialed and never returned; relaxed matching only yields the "did you
\* mean" suggestions of the error raised when the search found nothing.
C10_RelaxedOnlySuggests ==
    Done =>
        /\ \A i \in DOMAIN result.trials :
              NameEquals(result.trials[i].model, call.component_name)
        /\ Returned =>
              NameEquals(result.estimation.model_name, call.component_name)
        /\ (\E i \in DOMAIN result.text : result.text[i][1] = "suggestion")
              => /\ result.outcome = "raise"
                 /\ result.supported_models = <<>>
                 /\ result.trials = <<>>

\* the request ended with the error raised before any trial
NoneEligible ==
    /\ Done
    /\ result.supported_models = <<>>

\* the lines of the error text
TextLines == Range(result.text)

\* C11: an empty pool raises the "No models found" error, a pool that is
\* not empty but has no eligible candidate raises an error with another
\* text, and in neither case is a candidate instantiated.
C11_EmptyPoolError ==
    NoneEligible =>
        /\ result.outcome = "raise"
        /\ result.error = "EstimatorError"
        /\ result.trials = <<>>
        /\ call.models = <<>> <=> result.text = << <<"No models found">> >>
        /\ call.models = <<>> <=> <<"No models found">> \in TextLines

\* C11 witness: a request with an empty pool has ended
C11_Witness ==
    /\ NoneEligible
    /\ call.models = <<>>
    /\ result.text = << <<"No models found">> >>

\* the component names known to the pool of the request
KnownComponentNames ==
    UNION { {Lower(ClassComponentName(call.models[i])[j]) :
               j \in DOMAIN ClassComponentName(call.models[i])} :
            i \in DOMAIN call.models }

\* the error text lists all component names known to the pool
ListsKnownNames ==
    <<"is not supported by any models", KnownComponentNames>> \in TextLines

\* C12 as stated: whenever a pool that is not empty yields no eligible
\* candidate, the error text lists all component names known to the pool.
C12_ErrorListsKnownNames ==
    (NoneEligible /\ call.models # <<>>) => ListsKnownNames

\* C12 amended: the error text lists all component names known to the pool
\* when no candidate raised an initialization error; when name-matching
\* candidates lacked constructor parameters it names each of them as not
\* initializable and lists no component names.
C12_ErrorListsNamesOrInitErrors ==
    (NoneEligible /\ call.models # <<>>) =>
        IF result.init_errors = <<>>
        THEN ListsKnownNames
        ELSE /\ ~ListsKnownNames
             /\ <<"could not be initialized">> \in TextLines
             /\ \A i \in DOMAIN result.init_errors :
                   <<"init error", result.init_errors[i].model_name>>
                      \in TextLines

\* C12 witness: no model of a pool of two knows the component name
C12_Witness ==
    /\ NoneEligible
    /\ Len(call.models) = 2
    /\ result.init_errors = <<>>
    /\ ListsKnownNames

\* the lines of the diagnostic of the RuntimeError
Diagnostic ==
    TextLines
    \cup {<<result.fail_reasons[i].model_name>> \o
             result.fail_reasons[i].lastmessage :
          i \in DOMAIN result.fail_reasons}
    \cup UNION {Range(result.full_logs[i][1].messages) :
                  i \in {j \in DOMAIN result.full_logs :
                            result.full_logs[j] # <<>>}}

\* C13: when no candidate succeeds the diagnostic of the error contains
\* every initialization error recorded during the request, also those of
\* candidates excluded while other candidates were trialed and failed.
C13_DiagnosticHasInitErrors ==
    (Done /\ result.outcome = "raise") =>
        \A i \in DOMAIN result.init_errors :
            <<"init error", result.init_errors[i].model_name>> \in Diagnostic

\* C14: the failure reason listed for a failed candidate is the last
\* message of that candidate's own trial, and the message trail of its
\* Estimation holds no message of another candidate.
C14_OwnLastMessage ==
    (Done /\ result.error = "RuntimeError") =>
        \A i \in DOMAIN result.fail_reasons :
            /\ result.fail_reasons[i].lastmessage[2]
                  = result.fail_reasons[i].model_name
            /\ \A m \in TrialMessages(i) :
                  m[2] = result.estimations[i].e.model_name

----------------------------------------------------------------------------
(* model.py: ComponentModel.  Energies, latencies, areas and leak powers   *)
(* are whole numbers of a small unit.  An instance is a record in objects   *)
(* and is referred to by its index; an attribute that getattr reads with a  *)
(* default of False is FALSE until it is first assigned.                    *)

\* a list argument (subcomponents=[...]), as opposed to None
ListV(s) == [t |-> "list", v |-> s]

IsNone(x) == x.t = "none"

\* raising only when both values are missing
InitRaisesBothMissing(leak_power, area, subcomponents) ==
    IsNone(subcomponents) /\ IsNone(leak_power) /\ IsNone(area)

\* ComponentModel.__init__: the test that raises ValueError
InitRaises(leak_power, area, subcomponents) ==
    IsNone(subcomponents) /\ (IsNone(leak_power) \/ IsNone(area))

\* ComponentModel.__init__: the instance it leaves.  width is the attribute
\* the subclass sets in its own constructor; args remembers the arguments
\* of the construction.
ComponentModelInit(cls, leak_power, area, subcomponents, width) ==
    [cls |-> cls,
     area_scale |-> 1,
     energy_scale |-> 1,
     latency_scale |-> 1,
     leak_power_scale |-> 1,
     _leak_power |-> IF IsNone(leak_power) THEN 0 ELSE leak_power.v,
     _area |-> IF IsNone(area) THEN 0 ELSE area.v,
     subcomponents |-> IF IsNone(subcomponents) THEN <<>>
                       ELSE subcomponents.v,
     _subcomponents_set |-> ~IsNone(subcomponents),
     _energy_used |-> 0,
     _latency_used |-> 0,
     _currently_calling_action |-> FALSE,
     logger |-> <<>>,
     width |-> width,
     args |-> [leak_power |-> leak_power, area |-> area,
               subcomponents |-> subcomponents]]

\* sum(f(s) for s in subcomponents), the subcomponents being objs[ids[i]]
RECURSIVE SumOver(_, _, _)
SumOver(totals, ids, i) ==
    IF i > Len(ids) THEN 0
    ELSE totals[ids[i]] + SumOver(totals, ids, i + 1)

\* the leak power with the parent's scale factor applied to the
\* subcomponents as well
RECURSIVE LeakPowersParentScaled(_, _)
LeakPowersParentScaled(objs, n) ==
    IF n = 0 THEN <<>>
    ELSE LET below == LeakPowersParentScaled(objs, n - 1)
         IN  Append(below,
                    (objs[n]._leak_power
                     + SumOver(below, objs[n].subcomponents, 1))
                    * objs[n].leak_power_scale)

\* ComponentModel.leak_power of every instance.  A subcomponent is
\* constructed before its parent, so the totals are built in index order.
RECURSIVE LeakPowers(_, _)
LeakPowers(objs, n) ==
    IF n = 0 THEN <<>>
    ELSE LET below == LeakPowers(objs, n - 1)
         IN  Append(below,
                    objs[n]._leak_power * objs[n].leak_power_scale
                    + SumOver(below, objs[n].subcomponents, 1))

leak_power(objs, o) == LeakPowers(objs, o)[o]

\* ComponentModel.area of every instance
RECURSIVE Areas(_, _)
Areas(objs, n) ==
    IF n = 0 THEN <<>>
    ELSE LET below == Areas(objs, n - 1)
         IN  Append(below,
                    objs[n]._area * objs[n].area_scale
                    + SumOver(below, objs[n].subcomponents, 1))

area(objs, o) == Areas(objs, o)[o]

\* scaling/scalefuncs.py
ScaleFunc(f, target, scalefrom) ==
    CASE f = "linear" -> target \div scalefrom
      [] f = "quadratic" -> (target \div scalefrom) * (target \div scalefrom)
      [] f = "noscale" -> 1
      [] f = "pow_base" -> (target - scalefrom) * (target - scalefrom)

\* the scale attribute replaced by the value of the function
ScaledFromOne(prev_val, callfunc, target, default) ==
    IF callfunc = "None" THEN prev_val
    ELSE ScaleFunc(callfunc, target, default)

\* ComponentModel.scale: one attribute of the loop
Scaled(prev_val, callfunc, target, default) ==
    IF callfunc = "None" THEN prev_val
    ELSE prev_val * ScaleFunc(callfunc, target, default)

\* ComponentModel.scale without the test of target against default
ScaleAlways(obj, target, default, fns) ==
    [obj EXCEPT
        !.area_scale = Scaled(@, fns.area, target, default),
        !.energy_scale = Scaled(@, fns.energy, target, default),
        !.latency_scale = Scaled(@, fns.latency, target, default),
        !.leak_power_scale = Scaled(@, fns.leak_power, target, default)]

\* ComponentModel.scale
scale(obj, target, default, fns) ==
    IF target = default THEN obj
    ELSE [obj EXCEPT
            !.area_scale = Scaled(@, fns.area, target, default),
            !.energy_scale = Scaled(@, fns.energy, target, default),
            !.latency_scale = Scaled(@, fns.latency, target, default),
            !.leak_power_scale = Scaled(@, fns.leak_power, target, default)]

\* ComponentModel.scale: the attributes whose function it calls, in the
\* order of its loop
ScaleLoop == << "area", "energy", "latency", "leak_power" >>

ScaleFunctionsCalled(target, default, fns) ==
    IF target = default THEN <<>>
    ELSE SelectSeq(ScaleLoop, LAMBDA a : fns[a] # "None")

\* ComponentModel.scale: the value it returns
ScaleReturns(target, default) == target

----------------------------------------------------------------------------
(* The component classes a client derives from ComponentModel.  Leaf is a   *)
(* model without subcomponents; Composite hands the subcomponents it is     *)
(* given to ComponentModel.__init__ and sets self.width.  A body is the     *)
(* list of action calls the function makes, on self (sub = 0) or on         *)
(* self.subcomponents[sub - 1], followed by the value it returns; it        *)
(* ignores what the calls return.                                           *)

ComponentClasses == {"Leaf", "Composite"}

ClassWidth(cls) == IF cls = "Composite" THEN IntV(2) ELSE None

BodyCall(sub, name) == [sub |-> sub, name |-> name]

Returns(energy, latency) == [t |-> "tuple", energy |-> energy, latency |-> latency]

ReturnsNone == [t |-> "none", energy |-> 0, latency |-> 0]

\* form is how the decorator is applied: "bare" is @action, "keyword" is
\* @action(bits_per_action=..., pipelined_subcomponents=...), "direct" is
\* name = action(function, bits_per_action, pipelined_subcomponents)
Declaration(form, bits, pipelined, body, returns) ==
    [form |-> form, bits_per_action |-> bits,
     pipelined_subcomponents |-> pipelined, body |-> body,
     returns |-> returns]

LeafActions ==
    [read |-> Declaration("bare", "None", FALSE, <<>>, Returns(3, 2)),
     idle |-> Declaration("bare", "None", FALSE, <<>>, ReturnsNone),
     write |-> Declaration("keyword", "width", FALSE, <<>>, Returns(4, 1))]

CompositeActions ==
    [read |-> Declaration("bare", "None", FALSE,
                          << BodyCall(1, "read") >>, Returns(5, 3)),
     read_both |-> Declaration("bare", "None", FALSE,
                          << BodyCall(1, "read"), BodyCall(2, "read") >>,
                          Returns(5, 3)),
     read_pipelined |-> Declaration("keyword", "None", TRUE,
                          << BodyCall(1, "read"), BodyCall(2, "read") >>,
                          Returns(5, 3)),
     read_overlapped |-> Declaration("direct", "None", TRUE,
                          << BodyCall(1, "read"), BodyCall(2, "read") >>,
                          Returns(5, 3)),
     transfer |-> Declaration("keyword", "width", FALSE,
                          << BodyCall(1, "read") >>, Returns(5, 3)),
     idle |-> Declaration("bare", "None", FALSE, <<>>, ReturnsNone),
     refresh |-> Declaration("bare", "None", FALSE,
                          << BodyCall(0, "read") >>, Returns(5, 3)),
     refresh_all |-> Declaration("bare", "None", FALSE,
                          << BodyCall(0, "refresh") >>, Returns(5, 3)),
     read_then_idle |-> Declaration("bare", "None", FALSE,
                          << BodyCall(0, "read"), BodyCall(0, "idle") >>,
                          Returns(5, 3)),
     flush |-> Declaration("bare", "None", FALSE,
                          << BodyCall(1, "read"), BodyCall(0, "idle") >>,
                          Returns(5, 3)),
     burst |-> Declaration("keyword", "bus_width", FALSE,
                          << BodyCall(1, "read") >>, Returns(5, 3))]

ClassActions(cls) == IF cls = "Leaf" THEN LeafActions ELSE CompositeActions

\* action: what the decorator makes of a declaration.  Without a function
\* it returns lambda func: action(func, bits_per_action).
action(decl) ==
    [bits_per_action |-> decl.bits_per_action,
     pipelined_subcomponents |->
         IF decl.form = "keyword" THEN FALSE
         ELSE decl.pipelined_subcomponents,
     additional_kwargs |->
         IF decl.bits_per_action = "None" THEN {} ELSE {"bits_per_action"},
     body |-> decl.body,
     returns |-> decl.returns]

\* getattr(self, name) under try/except: None when there is no attribute
GetAttr(obj, name) == IF name = "width" THEN obj.width ELSE None

----------------------------------------------------------------------------
(* model.py: the wrapper that action puts around a function.  A frame is    *)
(* one activation of the wrapper: its locals and how far the body has run.  *)

Wrapper(objs, self, func) == action(ClassActions(objs[self].cls)[func])

\* for subcomponent in self.subcomponents: reset both accumulators
ResetSubcomponents(objs, ids) ==
    [i \in DOMAIN objs |->
        IF i \in Range(ids)
        THEN [objs[i] EXCEPT !._energy_used = 0, !._latency_used = 0]
        ELSE objs[i]]

\* self.logger.info(message): the logger of an instance queues its messages
Info(objs, self, message) ==
    [objs EXCEPT ![self].logger = Append(@, message)]

\* "Calling action {cls}.{func} ...", the first message of an activation;
\* tabs counts the tabs put in front of it on its way up
CallingAction(cls, func) ==
    [text |-> "Calling action", cls |-> cls, func |-> func, tabs |-> 0]

\* "Log for subcomponent {cls}:"
LogFor(cls) ==
    [text |-> "Log for subcomponent", cls |-> cls, func |-> "None",
     tabs |-> 0]

\* self.logger.info(f"\t{message}") for every message of a list
Tabbed(messages) ==
    [k \in DOMAIN messages |-> [messages[k] EXCEPT !.tabs = @ + 1]]

\* pop_all_messages(logger): the messages of the queue, which it empties
pop_all_messages(objs, o) ==
    [objects |-> [objs EXCEPT ![o].logger = <<>>],
     messages |-> objs[o].logger]

\* the loop that moves the messages of the subcomponents to self.logger
RECURSIVE FunnelMessages(_, _, _, _)
FunnelMessages(objs, self, ids, i) ==
    IF i > Len(ids) THEN objs
    ELSE LET headed == Info(objs, self, LogFor(objs[ids[i]].cls))
             popped == pop_all_messages(headed, ids[i])
         IN  FunnelMessages(
                 [popped.objects EXCEPT
                     ![self].logger = @ \o Tabbed(popped.messages)],
                 self, ids, i + 1)

NoScale == [num |-> 1, den |-> 1]

\* x * scale, scale being kwargs["bits_per_action"] / nominal_bits
TimesScale(x, s) == (x * s.num) \div s.den

Frame(self, func, was, s) ==
    [self |-> self, func |-> func, was_already_calling_action |-> was,
     scale |-> s, pc |-> 1]

\* the wrapper up to the call of the function: the flag, the first message,
\* the reset of the subcomponents, the bit scale, and the arguments the
\* function accepts
WrapperEnter(objs, self, func, kwargs) ==
    LET w == Wrapper(objs, self, func)
        was == objs[self]._currently_calling_action
        flagged == [objs EXCEPT ![self]._currently_calling_action = TRUE]
        logged == Info(flagged, self, CallingAction(objs[self].cls, func))
        entered == ResetSubcomponents(logged, objs[self].subcomponents)
        scaling == w.bits_per_action # "None"
                   /\ "bits_per_action" \in DOMAIN kwargs
        nominal_bits == GetAttr(objs[self], w.bits_per_action)
        passed == (DOMAIN kwargs) \ w.additional_kwargs
    IN  [objects |-> entered,
         raised |-> IF scaling /\ IsNone(nominal_bits)
                    THEN "AttributeError"
                    ELSE IF passed # {} THEN "TypeError" ELSE "None",
         names |-> IF scaling /\ IsNone(nominal_bits)
                   THEN "__name__" ELSE "None",
         frame |-> Frame(self, func, was,
                         IF scaling /\ ~IsNone(nominal_bits)
                         THEN [num |-> kwargs["bits_per_action"],
                               den |-> nominal_bits.v]
                         ELSE NoScale)]

\* the loop that adds the subcomponents' energy and clears it
RECURSIVE AddEnergy(_, _, _, _)
AddEnergy(objs, ids, i, energy_val) ==
    IF i > Len(ids) THEN [objects |-> objs, val |-> energy_val]
    ELSE AddEnergy([objs EXCEPT ![ids[i]]._energy_used = 0], ids, i + 1,
                   energy_val + objs[ids[i]]._energy_used)

Max(a, b) == IF a >= b THEN a ELSE b

\* target_func((latency_val, subcomponent._latency_used))
TargetFunc(pipelined_subcomponents, a, b) ==
    IF pipelined_subcomponents THEN Max(a, b) ELSE a + b

\* the loop that folds in the subcomponents' latency and clears it
RECURSIVE AddLatency(_, _, _, _, _)
AddLatency(objs, ids, i, latency_val, pipelined) ==
    IF i > Len(ids) THEN [objects |-> objs, val |-> latency_val]
    ELSE AddLatency([objs EXCEPT ![ids[i]]._latency_used = 0], ids, i + 1,
                    TargetFunc(pipelined, latency_val,
                               objs[ids[i]]._latency_used),
                    pipelined)

\* a None return refused whenever there are no subcomponents now
NoneRefusedWhenEmpty(obj) == obj.subcomponents = <<>>

\* a None return is refused only when no subcomponents were given to the
\* constructor and there are none now
NoneRefused(obj) == ~obj._subcomponents_set /\ obj.subcomponents = <<>>

\* the bit scale applied to the function's own contribution only
AccumulateOwnBitsOnly(objs, frame, w, e, l) ==
    LET self == frame.self
        ids == objs[self].subcomponents
        energy == AddEnergy(objs, ids, 1,
                      TimesScale(e * objs[self].energy_scale, frame.scale))
        latency == AddLatency(energy.objects, ids, 1,
                      TimesScale(l * objs[self].latency_scale, frame.scale),
                      w.pipelined_subcomponents)
    IN  [objects |-> [latency.objects EXCEPT
                         ![self]._energy_used = @ + energy.val,
                         ![self]._latency_used = @ + latency.val],
         energy |-> energy.val,
         latency |-> latency.val]

\* the outermost activation: scale, add the subcomponents, accumulate
Accumulate(objs, frame, w, e, l) ==
    LET self == frame.self
        ids == objs[self].subcomponents
        energy == AddEnergy(objs, ids, 1, e * objs[self].energy_scale)
        energy_val == TimesScale(energy.val, frame.scale)
        latency == AddLatency(energy.objects, ids, 1,
                              l * objs[self].latency_scale,
                              w.pipelined_subcomponents)
        latency_val == TimesScale(latency.val, frame.scale)
    IN  [objects |-> [latency.objects EXCEPT
                         ![self]._energy_used = @ + energy_val,
                         ![self]._latency_used = @ + latency_val],
         energy |-> energy_val,
         latency |-> latency_val]

\* finally: self._currently_calling_action = False
Finally(objs, self) ==
    [objs EXCEPT ![self]._currently_calling_action = FALSE]

\* the wrapper from the return of the function on
WrapperExit(objs, frame) ==
    LET self == frame.self
        w == Wrapper(objs, self, frame.func)
        returned_value == w.returns
    IN  IF IsNone(returned_value) /\ NoneRefused(objs[self])
        THEN [objects |-> Finally(objs, self), raised |-> "ValueError",
              energy |-> 0, latency |-> 0]
        ELSE IF frame.was_already_calling_action
        THEN [objects |-> Finally(objs, self), raised |-> "None",
              energy |-> returned_value.energy,
              latency |-> returned_value.latency]
        ELSE LET a == Accumulate(objs, frame, w, returned_value.energy,
                                 returned_value.latency)
                 funnelled == FunnelMessages(a.objects, self,
                                             objs[self].subcomponents, 1)
             IN  [objects |-> Finally(funnelled, self), raised |-> "None",
                  energy |-> a.energy, latency |-> a.latency]

\* an exception leaves every activation through its finally clause
RECURSIVE Unwind(_, _)
Unwind(objs, frames) ==
    IF frames = <<>> THEN objs
    ELSE Unwind(Finally(objs, Head(frames).self), Tail(frames))

----------------------------------------------------------------------------
(* What a client does with component models: it constructs them, scales    *)
(* them, reads their leak power and area and calls their actions.  history *)
(* holds one entry per action call made from outside; while models are     *)
(* constructed and scaled it holds what the client read since the last     *)
(* change.                                                                  *)

\* most instances a client constructs
MaxObjects == 3

\* longest list of subcomponents handed to a constructor
MaxSubcomponents == 2

\* most entries of history
MaxCalls == 2

\* scale is not called once it would take a scale factor beyond this
MaxScale == 4

select_vars == <<pc, call, result, default_messages>>

\* the leak_power and area the constructors of the client classes are
\* given: a Leaf is tried with every combination of a value and None, a
\* Composite with both values or with neither
InitArgs(cls) ==
    IF cls = "Leaf"
    THEN { [leak_power |-> lp, area |-> ar] :
              lp \in {None, IntV(1)}, ar \in {None, IntV(2)} }
    ELSE { [leak_power |-> None, area |-> None],
           [leak_power |-> IntV(2), area |-> IntV(3)] }

\* lists of distinct instances in the order of their construction
SubcomponentLists(ids) ==
    { s \in UNION { [1..n -> ids] : n \in 0..MaxSubcomponents } :
        \A i, j \in DOMAIN s : i < j => s[i] < s[j] }

SubcomponentArgs(cls, objs) ==
    IF cls = "Leaf" THEN {None}
    ELSE {None} \cup { ListV(s) : s \in SubcomponentLists(DOMAIN objs) }

Entry(op, self, func, kwargs, before) ==
    [op |-> op, self |-> self, func |-> func, kwargs |-> kwargs,
     before |-> before, status |-> "running", raised |-> "None",
     energy |-> 0, latency |-> 0, leak_power |-> 0, area |-> 0,
     value |-> 0, called |-> <<>>, names |-> "None"]

Raised(entry, error) == [entry EXCEPT !.status = "raised", !.raised = error]

Gave(entry, energy, latency) ==
    [entry EXCEPT !.status = "returned", !.energy = energy,
                  !.latency = latency]

\* what reading the properties leak_power and area gave
Read(entry, lp, ar) ==
    [entry EXCEPT !.status = "returned", !.leak_power = lp, !.area = ar]

\* what a call of scale gave and which functions it called
ScaleGave(entry, value, called) ==
    [entry EXCEPT !.status = "returned", !.value = value, !.called = called]

\* cls(leak_power, area, subcomponents); a constructor that raises leaves
\* no instance
NewModel ==
    /\ stack = <<>>
    /\ Len(objects) < MaxObjects
    /\ \E cls \in ComponentClasses :
       \E a \in InitArgs(cls), subs \in SubcomponentArgs(cls, objects) :
          /\ ~InitRaises(a.leak_power, a.area, subs)
          /\ objects' = Append(objects,
                 ComponentModelInit(cls, a.leak_power, a.area, subs,
                                    ClassWidth(cls)))
    /\ history' = <<>>
    /\ UNCHANGED <<select_vars, stack>>

\* the scale functions a client class passes to self.scale
ScaleFunctions ==
    [area |-> "linear", energy |-> "linear", latency |-> "quadratic",
     leak_power |-> "quadratic"]

ScaleWithin(obj) ==
    /\ obj.area_scale <= MaxScale
    /\ obj.energy_scale <= MaxScale
    /\ obj.latency_scale <= MaxScale
    /\ obj.leak_power_scale <= MaxScale

\* self.scale(key, target, default, ...)
ScaleModel ==
    /\ stack = <<>>
    /\ \E o \in DOMAIN objects, target \in {1, 2} :
          LET scaled == scale(objects[o], target, 1, ScaleFunctions)
          IN  /\ ScaleWithin(scaled)
              /\ objects' = [objects EXCEPT ![o] = scaled]
    /\ history' = <<>>
    /\ UNCHANGED <<select_vars, stack>>

\* o.leak_power and o.area
ReadTotals ==
    /\ stack = <<>>
    /\ \E o \in DOMAIN objects :
          history' = << Read(Entry("totals", o, "None", EmptyDict, objects),
                             leak_power(objects, o), area(objects, o)) >>
    /\ UNCHANGED <<select_vars, objects, stack>>

TreeNext ==
    \/ NewModel
    \/ ScaleModel
    \/ ReadTotals

SpecTree == Init /\ [][TreeNext]_vars

----------------------------------------------------------------------------
(* Action calls.  The trees they are made on are built with the            *)
(* constructors: a Leaf alone, a Composite without and with an empty list  *)
(* of subcomponents, a Composite over one and over two Leaves, and a       *)
(* Composite over a Composite over a Leaf.                                  *)

NewLeaf == ComponentModelInit("Leaf", IntV(1), IntV(2), None, ClassWidth("Leaf"))

NewComposite(subs) == ComponentModelInit("Composite", IntV(2), IntV(3), subs, ClassWidth("Composite"))

Trees ==
    { << NewLeaf >>,
      << NewComposite(None) >>,
      << NewComposite(ListV(<<>>)) >>,
      << NewLeaf, NewComposite(ListV(<<1>>)) >>,
      << NewLeaf, NewLeaf, NewComposite(ListV(<<1, 2>>)) >>,
      << NewLeaf, NewComposite(ListV(<<1>>)), NewComposite(ListV(<<2>>)) >> }

\* the instances in S have been scaled from 1 to 2
ScaledTree(t, S) ==
    [i \in DOMAIN t |->
        IF i \in S THEN scale(t[i], 2, 1, ScaleFunctions) ELSE t[i]]

ScaledTrees == { ScaledTree(t, S) : t \in Trees, S \in SUBSET (1..MaxObjects) }

\* the keyword arguments of a call from outside: clients pass
\* bits_per_action to transfer and to read
ActionKwargs(func) ==
    IF func \in {"transfer", "read"}
    THEN { EmptyDict, [bits_per_action |-> 4], [bits_per_action |-> 6] }
    ELSE IF func \in {"write", "burst"}
    THEN { EmptyDict, [bits_per_action |-> 4] }
    ELSE { EmptyDict }

ActionInit ==
    /\ pc = "idle"
    /\ call = NoCall
    /\ result = NoResult
    /\ default_messages = [FloatEstimation |-> <<>>,
                           EstimatorEstimation |-> <<>>]
    /\ objects \in ScaledTrees
    /\ stack = <<>>
    /\ history = <<>>

LastRaised(h, error) == [h EXCEPT ![Len(h)] = Raised(@, error)]

\* the exception of the last entry and the attribute its message names
LastRaisedNaming(h, error, names) ==
    [h EXCEPT ![Len(h)] = [Raised(@, error) EXCEPT !.names = names]]

\* the wrapper was entered with outcome e below the activations frames:
\* either the function starts to run or the exception leaves every caller
Enter(e, frames, h) ==
    IF e.raised # "None"
    THEN /\ objects' = Unwind(Finally(e.objects, e.frame.self), frames)
         /\ stack' = <<>>
         /\ history' = LastRaisedNaming(h, e.raised, e.names)
    ELSE /\ objects' = e.objects
         /\ stack' = << e.frame >> \o frames
         /\ history' = h

\* a call of an action from outside any action
ClientCall ==
    /\ stack = <<>>
    /\ Len(history) < MaxCalls
    /\ \E o \in DOMAIN objects :
       \E func \in DOMAIN ClassActions(objects[o].cls) :
       \E kwargs \in ActionKwargs(func) :
          Enter(WrapperEnter(objects, o, func, kwargs), <<>>,
                Append(history, Entry("call", o, func, kwargs, objects)))
    /\ UNCHANGED select_vars

\* the instance a call of the body is made on: 0 when the list of
\* subcomponents is too short
Callee(obj, self, c) ==
    IF c.sub = 0 THEN self
    ELSE IF c.sub <= Len(obj.subcomponents) THEN obj.subcomponents[c.sub]
    ELSE 0

\* the running function makes its next call
BodyStep ==
    /\ stack # <<>>
    /\ LET top == Head(stack)
           body == Wrapper(objects, top.self, top.func).body
       IN  /\ top.pc <= Len(body)
           /\ LET c == body[top.pc]
                  callee == Callee(objects[top.self], top.self, c)
                  callers == << [top EXCEPT !.pc = @ + 1] >> \o Tail(stack)
              IN  IF callee = 0
                  THEN /\ objects' = Unwind(objects, stack)
                       /\ stack' = <<>>
                       /\ history' = LastRaised(history, "IndexError")
                  ELSE IF c.name \notin DOMAIN ClassActions(objects[callee].cls)
                  THEN /\ objects' = Unwind(objects, stack)
                       /\ stack' = <<>>
                       /\ history' = LastRaised(history, "AttributeError")
                  ELSE Enter(WrapperEnter(objects, callee, c.name, EmptyDict),
                             callers, history)
    /\ UNCHANGED select_vars

\* the wrapper has left with outcome x
Leave(x, frames) ==
    IF x.raised # "None"
    THEN /\ objects' = Unwind(x.objects, frames)
         /\ stack' = <<>>
         /\ history' = LastRaised(history, x.raised)
    ELSE /\ objects' = x.objects
         /\ stack' = frames
         /\ history' = IF frames = <<>>
                       THEN [history EXCEPT ![Len(history)] =
                                Gave(@, x.energy, x.latency)]
                       ELSE history

\* the running function returns
ActionReturn ==
    /\ stack # <<>>
    /\ Head(stack).pc > Len(Wrapper(objects, Head(stack).self, Head(stack).func).body)
    /\ Leave(WrapperExit(objects, Head(stack)), Tail(stack))
    /\ UNCHANGED select_vars

ActionNext ==
    \/ ClientCall
    \/ BodyStep
    \/ ActionReturn

SpecAction == ActionInit /\ [][ActionNext]_vars

----------------------------------------------------------------------------
(* Properties of finished action calls *)

ReturnedCalls ==
    { i \in DOMAIN history :
        history[i].op = "call" /\ history[i].status = "returned" }

\* the declaration of the action that entry e called
Called(e) == ClassActions(e.before[e.self].cls)[e.func]

\* the energy and latency the function reports as its own
OwnEnergy(decl) == decl.returns.energy

OwnLatency(decl) == decl.returns.latency

\* the calls on subcomponents a body makes, itself or through the actions
\* of the same instance it calls
RECURSIVE SubcomponentCalls(_, _, _)
SubcomponentCalls(cls, body, i) ==
    IF i > Len(body) THEN <<>>
    ELSE (IF body[i].sub = 0
          THEN SubcomponentCalls(cls, ClassActions(cls)[body[i].name].body, 1)
          ELSE << body[i] >>)
         \o SubcomponentCalls(cls, body, i + 1)

\* the calls on the instance itself a body makes, at any depth
RECURSIVE NestedCalls(_, _, _)
NestedCalls(cls, body, i) ==
    IF i > Len(body) THEN 0
    ELSE (IF body[i].sub = 0
          THEN 1 + NestedCalls(cls, ClassActions(cls)[body[i].name].body, 1)
          ELSE 0)
         + NestedCalls(cls, body, i + 1)

CallsOf(e) == SubcomponentCalls(e.before[e.self].cls, Called(e).body, 1)

\* entry e is a call without bits_per_action that causes exactly one action
\* of a subcomponent, and that subcomponent has no subcomponents
OneSubcomponentAction(e) ==
    /\ "bits_per_action" \notin DOMAIN e.kwargs
    /\ Len(CallsOf(e)) = 1
    /\ e.before[e.before[e.self].subcomponents[CallsOf(e)[1].sub]].subcomponents = <<>>

\* E0 * energy_scale + E1 * subcomponent.energy_scale
OnceScaledEnergy(e) ==
    LET self == e.before[e.self]
        sub == e.before[self.subcomponents[CallsOf(e)[1].sub]]
    IN  OwnEnergy(Called(e)) * self.energy_scale
        + OwnEnergy(ClassActions(sub.cls)[CallsOf(e)[1].name]) * sub.energy_scale

\* the call of entry i is the last thing that happened
JustFinished(i) == i = Len(history) /\ stack = <<>>

\* C15: an outermost action that reports own energy E0 and causes, directly
\* or through nested calls on the same instance, one subcomponent action of
\* energy E1 returns E0 * energy_scale + E1 * subcomponent.energy_scale and
\* adds that to its accumulator, however many nested calls its body makes.
C15_NestedNeverDoubleScales ==
    \A i \in ReturnedCalls :
        OneSubcomponentAction(history[i]) =>
            /\ history[i].energy = OnceScaledEnergy(history[i])
            /\ JustFinished(i) =>
                  objects[history[i].self]._energy_used
                  = history[i].before[history[i].self]._energy_used
                    + OnceScaledEnergy(history[i])

\* the same for bodies that make at most one nested call after which no
\* further call of the instance itself follows
SingleNestingScalesOnce ==
    \A i \in ReturnedCalls :
        (/\ OneSubcomponentAction(history[i])
         /\ history[i].func \in {"read", "refresh", "refresh_all"})
        => history[i].energy = OnceScaledEnergy(history[i])

\* entry e is a call without bits_per_action on an instance with two
\* subcomponents that have none themselves, and its body calls one action
\* of each
TwoSubcomponentActions(e) ==
    /\ "bits_per_action" \notin DOMAIN e.kwargs
    /\ Len(e.before[e.self].subcomponents) = 2
    /\ \A k \in 1..2 :
          e.before[e.before[e.self].subcomponents[k]].subcomponents = <<>>
    /\ Len(CallsOf(e)) = 2
    /\ CallsOf(e)[1].sub = 1
    /\ CallsOf(e)[2].sub = 2
    /\ NestedCalls(e.before[e.self].cls, Called(e).body, 1) = 0

\* the latency subcomponent k has accumulated when the function returns
SubLatency(e, k) ==
    LET sub == e.before[e.before[e.self].subcomponents[k]]
    IN  OwnLatency(ClassActions(sub.cls)[CallsOf(e)[k].name]) * sub.latency_scale

ScaledOwnLatency(e) == OwnLatency(Called(e)) * e.before[e.self].latency_scale

\* C16: an outermost call of an action declared with
\* pipelined_subcomponents=True, in whichever form, reports latency
\* max(ownLatency * latency_scale, L1, L2) over its two subcomponents; one
\* not declared pipelined reports ownLatency * latency_scale + L1 + L2.
C16_PipelinedMaxElseSum ==
    \A i \in ReturnedCalls :
        TwoSubcomponentActions(history[i]) =>
            history[i].latency =
                IF Called(history[i]).pipelined_subcomponents
                THEN Max(ScaledOwnLatency(history[i]),
                         Max(SubLatency(history[i], 1),
                             SubLatency(history[i], 2)))
                ELSE ScaledOwnLatency(history[i]) + SubLatency(history[i], 1)
                     + SubLatency(history[i], 2)

\* the same when the option is given positionally or to action called with
\* the function, and for actions not declared pipelined
PipelinedWhenGivenWithFunction ==
    \A i \in ReturnedCalls :
        (/\ TwoSubcomponentActions(history[i])
         /\ Called(history[i]).form # "keyword")
        => history[i].latency =
                IF Called(history[i]).pipelined_subcomponents
                THEN Max(ScaledOwnLatency(history[i]),
                         Max(SubLatency(history[i], 1),
                             SubLatency(history[i], 2)))
                ELSE ScaledOwnLatency(history[i]) + SubLatency(history[i], 1)
                     + SubLatency(history[i], 2)

ScaleFactors(obj) ==
    << obj.area_scale, obj.energy_scale, obj.latency_scale,
       obj.leak_power_scale >>

\* entries i and j are calls of the same action of the same instance, the
\* action declares a bit-width attribute, i passes bits_per_action and j
\* does not
SameCallWithAndWithoutBits(i, j) ==
    /\ history[i].self = history[j].self
    /\ history[i].func = history[j].func
    /\ Called(history[i]).bits_per_action # "None"
    /\ "bits_per_action" \in DOMAIN history[i].kwargs
    /\ "bits_per_action" \notin DOMAIN history[j].kwargs

\* k, for bits_per_action = k * nominal
BitsFactor(e) ==
    e.kwargs["bits_per_action"]
    \div GetAttr(e.before[e.self], Called(e).bits_per_action).v

\* C17: a call with bits_per_action = k * nominal reports k times the energy
\* and k times the latency of the same call without bits_per_action, before
\* or after it, and no call changes a scale factor of an instance.
C17_BitsScaleLinearly ==
    /\ \A i, j \in ReturnedCalls :
          SameCallWithAndWithoutBits(i, j) =>
             /\ history[i].energy = BitsFactor(history[i]) * history[j].energy
             /\ history[i].latency = BitsFactor(history[i]) * history[j].latency
    /\ \A i \in DOMAIN history : \A o \in DOMAIN objects :
          ScaleFactors(objects[o]) = ScaleFactors(history[i].before[o])

\* a call with three times the nominal bits was followed by the same call
\* without bits_per_action, on an instance with a scaled subcomponent
C17_Witness ==
    /\ Len(history) >= 2
    /\ {1, 2} \subseteq ReturnedCalls
    /\ SameCallWithAndWithoutBits(1, 2)
    /\ BitsFactor(history[1]) = 3
    /\ history[2].energy = 5 + 3 * 2
    /\ history[1].energy = 3 * (5 + 3 * 2)
    /\ history[1].latency = 3 * history[2].latency

\* the finished calls from outside of a function that makes no call and
\* returns None
NoneCalls ==
    { i \in DOMAIN history :
        /\ history[i].op = "call"
        /\ history[i].status # "running"
        /\ history[i].kwargs = EmptyDict
        /\ Called(history[i]).body = <<>>
        /\ IsNone(Called(history[i]).returns) }

\* the call was accepted as an own contribution of (0, 0)
AcceptedAsZero(e) ==
    e.status = "returned" /\ e.energy = 0 /\ e.latency = 0

UsageError(e) == e.status = "raised" /\ e.raised = "ValueError"

----------------------------------------------------------------------------
(* Properties of constructed component models *)

GivenBoth(obj) == ~IsNone(obj.args.leak_power) /\ ~IsNone(obj.args.area)

\* C19: every constructed ComponentModel without subcomponents was given
\* both leak_power and area; only a node with subcomponents may omit them.
C19_LeafGivenLeakPowerAndArea ==
    \A o \in DOMAIN objects :
        objects[o].subcomponents = <<>> => GivenBoth(objects[o])

\* C19 as the code has it: every ComponentModel constructed without a
\* subcomponents argument was given both leak_power and area; a node
\* constructed with a list of subcomponents, even an empty one, may omit
\* them.
C19_GivenBothUnlessSubcomponentsSet ==
    \A o \in DOMAIN objects :
        IsNone(objects[o].args.subcomponents) => GivenBoth(objects[o])

\* a model constructed without subcomponents argument and with both values
\* stands next to one constructed with a list and neither value
C19_Witness ==
    \E o, p \in DOMAIN objects :
        /\ IsNone(objects[o].args.subcomponents)
        /\ GivenBoth(objects[o])
        /\ ~IsNone(objects[p].args.subcomponents)
        /\ IsNone(objects[p].args.leak_power)
        /\ IsNone(objects[p].args.area)

\* the nodes of the trees below the instances ids, each as often as it
\* occurs
RECURSIVE Nodes(_, _)
Nodes(objs, ids) ==
    IF ids = <<>> THEN <<>>
    ELSE << Head(ids) >> \o Nodes(objs, objs[Head(ids)].subcomponents)
         \o Nodes(objs, Tail(ids))

RECURSIVE OwnLeakPowers(_, _)
OwnLeakPowers(objs, nodes) ==
    IF nodes = <<>> THEN 0
    ELSE objs[Head(nodes)]._leak_power * objs[Head(nodes)].leak_power_scale
         + OwnLeakPowers(objs, Tail(nodes))

RECURSIVE OwnAreas(_, _)
OwnAreas(objs, nodes) ==
    IF nodes = <<>> THEN 0
    ELSE objs[Head(nodes)]._area * objs[Head(nodes)].area_scale
         + OwnAreas(objs, Tail(nodes))

TotalsRead == { i \in DOMAIN history : history[i].op = "totals" }

\* C20: the leak power of a node, and likewise its area, is its own value
\* times its own scale factor plus the totals of its direct subcomponents,
\* recursively: every node of the tree contributes its own value times its
\* own scale factor and no other factor.
C20_TotalsOverTheTree ==
    \A i \in TotalsRead :
        /\ history[i].leak_power
           = OwnLeakPowers(history[i].before,
                           Nodes(history[i].before, << history[i].self >>))
        /\ history[i].area
           = OwnAreas(history[i].before,
                      Nodes(history[i].before, << history[i].self >>))

\* own leak power 2 scaled by 4 over two subcomponents of leak power 1 each
\* was read as 10
C20_Witness ==
    \E i \in TotalsRead :
        LET o == objects[history[i].self]
        IN  /\ o._leak_power = 2
            /\ o.leak_power_scale = 4
            /\ Len(o.subcomponents) = 2
            /\ \A k \in 1..2 : leak_power(objects, o.subcomponents[k]) = 1
            /\ history[i].leak_power = 10

----------------------------------------------------------------------------
(* Scaling one model with every combination of scale functions.  history    *)
(* holds the last call of scale.                                            *)

\* the functions a call of scale is given for one attribute
ScaleFunctionChoices == {"None", "linear", "pow_base"}

ScaleFunctionCombinations ==
    [{"area", "energy", "latency", "leak_power"} -> ScaleFunctionChoices]

\* target and default of a call of scale
ScaleArgs ==
    { [target |-> 2, default |-> 2], [target |-> 2, default |-> 1],
      [target |-> 4, default |-> 2] }

ScaleInit ==
    /\ pc = "idle"
    /\ call = NoCall
    /\ result = NoResult
    /\ default_messages = [FloatEstimation |-> <<>>,
                           EstimatorEstimation |-> <<>>]
    /\ objects = << NewLeaf >>
    /\ stack = <<>>
    /\ history = <<>>

\* self.scale(key, target, default, area_scale_function, ...)
CallScale ==
    /\ stack = <<>>
    /\ \E o \in DOMAIN objects, a \in ScaleArgs,
          fns \in ScaleFunctionCombinations :
          /\ ScaleWithin(scale(objects[o], a.target, a.default, fns))
          /\ objects' = [objects EXCEPT
                            ![o] = scale(@, a.target, a.default, fns)]
          /\ history' =
                << ScaleGave(Entry("scale", o, "scale",
                                   [target |-> a.target, default |-> a.default,
                                    fns |-> fns], objects),
                             ScaleReturns(a.target, a.default),
                             ScaleFunctionsCalled(a.target, a.default, fns)) >>
    /\ UNCHANGED <<select_vars, stack>>

ScaleNext == CallScale

SpecScale == ScaleInit /\ [][ScaleNext]_vars

ScaleCalls == { i \in DOMAIN history : history[i].op = "scale" }

\* C21: scale called with target equal to default returns target, calls
\* none of the functions it is given, whichever they are, and leaves the
\* four scale factors as they were.
C21_ScaleToDefaultIsNoOp ==
    \A i \in ScaleCalls :
        history[i].kwargs.target = history[i].kwargs.default =>
            /\ history[i].value = history[i].kwargs.target
            /\ history[i].called = <<>>
            /\ JustFinished(i) =>
                  ScaleFactors(objects[history[i].self])
                  = ScaleFactors(history[i].before[history[i].self])

\* an already scaled model was scaled from 2 to 2 with a function for every
\* attribute, among them one whose value for equal arguments is 0
C21_Witness ==
    \E i \in ScaleCalls :
        /\ history[i].kwargs.target = 2
        /\ history[i].kwargs.default = 2
        /\ \A a \in DOMAIN history[i].kwargs.fns :
              history[i].kwargs.fns[a] # "None"
        /\ history[i].kwargs.fns.energy = "pow_base"
        /\ objects[history[i].self].energy_scale = 4
        /\ history[i].value = 2

\* f(target, default) of the function given for one attribute, 1 for none
FactorOf(kwargs, a) ==
    IF kwargs.fns[a] = "None" THEN 1
    ELSE ScaleFunc(kwargs.fns[a], kwargs.target, kwargs.default)

\* C22: scale called with target different from default multiplies the
\* current scale factor of each attribute it is given a function f for by
\* f(target, default), whatever earlier calls made of that factor, and
\* leaves the factor of every attribute without a function as it was.
C22_ScaleMultipliesSupplied ==
    \A i \in ScaleCalls :
        (history[i].kwargs.target # history[i].kwargs.default
         /\ JustFinished(i)) =>
            LET before == history[i].before[history[i].self]
                after == objects[history[i].self]
                k == history[i].kwargs
            IN  /\ after.area_scale
                   = before.area_scale * FactorOf(k, "area")
                /\ after.energy_scale
                   = before.energy_scale * FactorOf(k, "energy")
                /\ after.latency_scale
                   = before.latency_scale * FactorOf(k, "latency")
                /\ after.leak_power_scale
                   = before.leak_power_scale * FactorOf(k, "leak_power")

\* a model whose energy factor an earlier call had made 2 was scaled from 2
\* to 4 with a linear function for energy and none for area: energy is 4,
\* area still the 2 of the earlier call
C22_Witness ==
    \E i \in ScaleCalls :
        /\ history[i].kwargs.target = 4
        /\ history[i].kwargs.default = 2
        /\ history[i].kwargs.fns.energy = "linear"
        /\ history[i].kwargs.fns.area = "None"
        /\ history[i].before[history[i].self].energy_scale = 2
        /\ history[i].before[history[i].self].area_scale = 2
        /\ objects[history[i].self].energy_scale = 4
        /\ objects[history[i].self].area_scale = 2

----------------------------------------------------------------------------
(* estimator_wrapper.py: arithmetic of FloatEstimation.  Values are exact   *)
(* fractions << numerator, denominator >> with a positive denominator, so   *)
(* that a true division is not rounded.  call holds the operands of an      *)
(* expression "left op right", result the value of the expression.          *)

RECURSIVE Gcd(_, _)
Gcd(a, b) == IF b = 0 THEN a ELSE Gcd(b, a % b)

Abs(n) == IF n < 0 THEN -n ELSE n

\* the fraction n / d in lowest terms, d # 0
Frac(n, d) ==
    LET g == Gcd(Abs(n), Abs(d))
        sign == IF d < 0 THEN -1 ELSE 1
    IN  << sign * (n \div g), sign * (d \div g) >>

\* the operators of float on two plain values
PlainOp(op, x, y) ==
    CASE op = "add" -> Frac(x[1] * y[2] + y[1] * x[2], x[2] * y[2])
      [] op = "sub" -> Frac(x[1] * y[2] - y[1] * x[2], x[2] * y[2])
      [] op = "mul" -> Frac(x[1] * y[1], x[2] * y[2])
      [] op = "truediv" -> Frac(x[1] * y[2], x[2] * y[1])
      [] op = "floordiv" -> Frac((x[1] * y[2]) \div (x[2] * y[1]), 1)

\* a plain number as an operand
Number(n) == [t |-> "number", value |-> Frac(n, 1)]

\* FloatEstimation.get_estimation(value, success, messages, estimator_name)
GetEstimation(value, success, messages, estimator_name) ==
    [t |-> "FloatEstimation", value |-> value, success |-> success,
     messages |-> messages, estimator_name |-> estimator_name]

\* FloatEstimation.__add__, __sub__, __mul__, __truediv__, __floordiv__
Dunder(op, self, other) ==
    IF other.t = "FloatEstimation"
    THEN GetEstimation(PlainOp(op, self.value, other.value),
                       self.success /\ other.success,
                       self.messages \o other.messages,
                       self.estimator_name)
    ELSE GetEstimation(PlainOp(op, self.value, other.value),
                       self.success, self.messages, self.estimator_name)

\* FloatEstimation.__radd__, __rsub__, __rmul__, __rtruediv__,
\* __rfloordiv__: return self.__op__(other)
Reflected(op, self, other) == Dunder(op, self, other)

\* the expression "left op right": the operator of a FloatEstimation on
\* the left, else the reflected operator of the one on the right
BinaryOp(op, left, right) ==
    IF left.t = "FloatEstimation" THEN Dunder(op, left, right)
    ELSE Reflected(op, right, left)

\* values, message lists and numbers of the operands
MaxValue == 3

OperandValues == 1..MaxValue

LeftEstimations ==
    { GetEstimation(Frac(v, 1), ok, msgs, "left") :
        v \in OperandValues, ok \in BOOLEAN,
        msgs \in {<<>>, << "left message" >>} }

RightEstimations ==
    { GetEstimation(Frac(v, 1), ok, msgs, "right") :
        v \in OperandValues, ok \in BOOLEAN,
        msgs \in {<<>>, << "right message" >>} }

Numbers == { Number(n) : n \in OperandValues }

Operands ==
    (LeftEstimations \X RightEstimations)
    \cup (LeftEstimations \X Numbers)
    \cup (Numbers \X RightEstimations)

ArithInit ==
    /\ pc = "idle"
    /\ call \in { [op |-> "operands", left |-> o[1], right |-> o[2]] :
                    o \in Operands }
    /\ result = NoResult
    /\ default_messages = [FloatEstimation |-> <<>>,
                           EstimatorEstimation |-> <<>>]
    /\ objects = <<>>
    /\ stack = <<>>
    /\ history = <<>>

Evaluate(op) ==
    /\ result' = [outcome |-> op,
                  e |-> BinaryOp(op, call.left, call.right)]
    /\ UNCHANGED <<pc, call, default_messages, model_vars>>

\* left + right, left - right, left * right, left / right, left // right
ArithNext ==
    \/ Evaluate("add")
    \/ Evaluate("sub")
    \/ Evaluate("mul")
    \/ Evaluate("truediv")
    \/ Evaluate("floordiv")

SpecArith == ArithInit /\ [][ArithNext]_vars

Evaluated == result # NoResult

\* success and messages of an operand; a plain number has neither
SuccessOf(x) == IF x.t = "FloatEstimation" THEN x.success ELSE TRUE

MessagesOf(x) == IF x.t = "FloatEstimation" THEN x.messages ELSE <<>>

ClaimedOps == {"add", "sub", "mul", "truediv"}

\* C23: the value of left op right, for op among + - * / and for two
\* FloatEstimations, a FloatEstimation and a number or a number and a
\* FloatEstimation, is an Estimation whose value is the value of the left
\* operand op the value of the right operand, whose success is the AND of
\* the operands' success flags and whose messages are the operands'
\* messages, left before right.
C23_ArithmeticIsValueWise ==
    (Evaluated /\ result.outcome \in ClaimedOps) =>
        /\ result.e.value
           = PlainOp(result.outcome, call.left.value, call.right.value)
        /\ result.e.success = (SuccessOf(call.left) /\ SuccessOf(call.right))
        /\ result.e.messages = MessagesOf(call.left) \o MessagesOf(call.right)

\* the same for every expression whose left operand is a FloatEstimation,
\* and for the reflected + and *, which commute
C23_ValueWiseButReflectedSubAndDiv ==
    (/\ Evaluated
     /\ result.outcome \in ClaimedOps
     /\ \/ call.left.t = "FloatEstimation"
        \/ result.outcome \in {"add", "mul"}) =>
        /\ result.e.value
           = PlainOp(result.outcome, call.left.value, call.right.value)
        /\ result.e.success = (SuccessOf(call.left) /\ SuccessOf(call.right))
        /\ result.e.messages = MessagesOf(call.left) \o MessagesOf(call.right)

\* the reflected - and / give the operation with the operands exchanged
C23_ReflectedExchangesOperands ==
    (/\ Evaluated
     /\ result.outcome \in {"sub", "truediv"}
     /\ call.left.t = "number") =>
        result.e.value
        = PlainOp(result.outcome, call.right.value, call.left.value)

----------------------------------------------------------------------------
(* select_models.py: requests that follow each other in one process.  The   *)
(* default message lists of the Estimation classes are created when the     *)
(* module is imported and are whatever earlier requests made of them.       *)

\* messages that earlier requests may have left when a request starts
MaxCarried == 1

\* the public operation of a request on the default lists as they are
Resolve(c, heap) ==
    CASE c.op = "get_energy" ->
            get_energy(c.component_name, c.component_attributes,
                       c.action_name, c.action_arguments, c.models,
                       c.return_estimation_object, c.relaxed, heap)
      [] c.op = "get_area" ->
            get_area(c.component_name, c.component_attributes, c.models,
                     c.return_estimation_object, c.relaxed, heap)
      [] c.op = "get_leak_power" ->
            get_leak_power(c.component_name, c.component_attributes,
                           c.models, c.return_estimation_object, c.relaxed,
                           heap)
      [] c.op = "get_model" ->
            get_model(c.component_name, c.component_attributes,
                      c.required_actions, c.models,
                      c.return_estimation_object, c.relaxed, heap)

\* the requests of one public operation
RequestsOf(op) ==
    { Request(op, name, attrs,
              IF op = "get_energy" THEN a.action_name ELSE NoAction,
              IF op = "get_energy" THEN a.action_arguments ELSE EmptyDict,
              IF op = "get_model" THEN required ELSE <<>>,
              models, reo, relaxed) :
        name \in ComponentNames, attrs \in ComponentAttributes,
        a \in ActionCalls, required \in RequiredActions, models \in Pools,
        reo \in BOOLEAN, relaxed \in BOOLEAN }

\* a request made after earlier requests of the process
LaterRequest(op) ==
    /\ pc = "idle"
    /\ TrailLength <= MaxCarried
    /\ \E c \in RequestsOf(op) :
          /\ call' = c
          /\ Finish(Resolve(c, default_messages))

RequestsNext ==
    \/ LaterRequest("get_energy")
    \/ LaterRequest("get_area")
    \/ LaterRequest("get_leak_power")
    \/ LaterRequest("get_model")
    \/ ReturnToCaller

SpecRequests == Init /\ [][RequestsNext]_vars

\* the default lists of a process that has resolved nothing
FreshLists == [FloatEstimation |-> <<>>, EstimatorEstimation |-> <<>>]

\* what the caller of a request sees of its result: the outcome, the value
\* and success flag of the Estimation and its message trail, and for a
\* failure the reasons and logs of the error
Seen(r) ==
    [outcome |-> r.outcome, error |-> r.error, kind |-> r.kind,
     value |-> r.estimation.value, success |-> r.estimation.success,
     model_name |-> r.estimation.model_name,
     messages |-> IF r.outcome = "return"
                  THEN r.heap[r.estimation.messages] ELSE <<>>,
     fail_reasons |-> r.fail_reasons, full_logs |-> r.full_logs]

\* C24: what a request gives, its value, success flag and message trail,
\* is what the same request gives in a process that resolved nothing
\* before it; in particular the messages of the returned Estimation were
\* all produced during that request.
C24_ResultIndependentOfEarlierRequests ==
    Done => Seen(result) = Seen(Resolve(call, FreshLists))

\* value, success flag, attribution and outcome do not depend on earlier
\* requests; only the message trails do
C24_ValueIndependentOfEarlierRequests ==
    Done =>
        LET seen == Seen(result)
            fresh == Seen(Resolve(call, FreshLists))
        IN  /\ seen.outcome = fresh.outcome
            /\ seen.error = fresh.error
            /\ seen.kind = fresh.kind
            /\ seen.value = fresh.value
            /\ seen.success = fresh.success
            /\ seen.model_name = fresh.model_name

----------------------------------------------------------------------------
(* model.py: the properties area and leak_power evaluated one call at a     *)
(* time.  subcomponents is a public list, and the list the constructor was  *)
(* given is the list the instance keeps, so a client can append to it       *)
(* after construction, any instance, the owner of the list included.  stack *)
(* holds one frame per property call in progress; the interpreter raises    *)
(* RecursionError in the call that would exceed its recursion limit.        *)

\* the interpreter's recursion limit, in property calls
RecursionLimit == 4

\* the frame of o.area or o.leak_power: the own term of the sum and the
\* subcomponent the generator has reached
PropertyFrame(objs, o, prop) ==
    [self |-> o, prop |-> prop, i |-> 1,
     sum |-> IF prop = "area" THEN objs[o]._area * objs[o].area_scale
             ELSE objs[o]._leak_power * objs[o].leak_power_scale]

\* what reading one property gave
ReadOne(entry, prop, val) ==
    IF prop = "area" THEN Read(entry, 0, val) ELSE Read(entry, val, 0)

CycleInit ==
    /\ pc = "idle"
    /\ call = NoCall
    /\ result = NoResult
    /\ default_messages = [FloatEstimation |-> <<>>,
                           EstimatorEstimation |-> <<>>]
    /\ objects \in Trees
    /\ stack = <<>>
    /\ history = <<>>

\* o.subcomponents.append(s)
AppendSubcomponent ==
    /\ stack = <<>>
    /\ \E o \in DOMAIN objects, s \in DOMAIN objects :
          /\ Len(objects[o].subcomponents) < MaxSubcomponents
          /\ objects' = [objects EXCEPT ![o].subcomponents = Append(@, s)]
    /\ history' = <<>>
    /\ UNCHANGED <<select_vars, stack>>

\* o.area or o.leak_power read by a client
ReadProperty ==
    /\ stack = <<>>
    /\ \E o \in DOMAIN objects, prop \in {"area", "leak_power"} :
          /\ stack' = << PropertyFrame(objects, o, prop) >>
          /\ history' = << Entry(prop, o, "None", EmptyDict, objects) >>
    /\ UNCHANGED <<select_vars, objects>>

PropertyRunning ==
    /\ stack # <<>>
    /\ "prop" \in DOMAIN stack[Len(stack)]

\* s.area for the next s of self.subcomponents
PropertyDescend ==
    /\ PropertyRunning
    /\ LET top == stack[Len(stack)]
           subs == objects[top.self].subcomponents
       IN  /\ top.i <= Len(subs)
           /\ Len(stack) < RecursionLimit
           /\ stack' = Append(stack,
                              PropertyFrame(objects, subs[top.i], top.prop))
    /\ UNCHANGED <<select_vars, objects, history>>

\* the call of s.area that exceeds the recursion limit raises, and no
\* caller catches the exception
PropertyOverflow ==
    /\ PropertyRunning
    /\ LET top == stack[Len(stack)]
           subs == objects[top.self].subcomponents
       IN  /\ top.i <= Len(subs)
           /\ Len(stack) = RecursionLimit
    /\ stack' = <<>>
    /\ history' = LastRaised(history, "RecursionError")
    /\ UNCHANGED <<select_vars, objects>>

\* the sum is complete: return it to the caller's sum or to the client
PropertyReturn ==
    /\ PropertyRunning
    /\ LET n == Len(stack)
           top == stack[n]
       IN  /\ top.i > Len(objects[top.self].subcomponents)
           /\ IF n = 1
              THEN /\ stack' = <<>>
                   /\ history' = [history EXCEPT ![Len(history)] =
                                     ReadOne(@, top.prop, top.sum)]
              ELSE /\ stack' = [SubSeq(stack, 1, n - 1) EXCEPT
                                  ![n - 1].sum = @ + top.sum,
                                  ![n - 1].i = @ + 1]
                   /\ history' = history
    /\ UNCHANGED <<select_vars, objects>>

CycleNext ==
    \/ AppendSubcomponent
    \/ ReadProperty
    \/ PropertyDescend
    \/ PropertyOverflow
    \/ PropertyReturn

SpecCycle == CycleInit /\ [][CycleNext]_vars

\* the instances reached from the instances in S through subcomponents
RECURSIVE ReachedFrom(_, _)
ReachedFrom(objs, S) ==
    LET more == S \cup UNION { Range(objs[o].subcomponents) : o \in S }
    IN  IF more = S THEN S ELSE ReachedFrom(objs, more)

Descendants(objs, o) == ReachedFrom(objs, Range(objs[o].subcomponents))

\* some instance of the tree below o, o included, is its own descendant
Cyclic(objs, o) ==
    \E d \in Descendants(objs, o) \cup {o} : d \in Descendants(objs, d)

PropertyReads ==
    { i \in DOMAIN history : history[i].op \in {"area", "leak_power"} }

\* C25: reading area or leak_power of a tree in which some component is
\* its own descendant ends with an error raised by a test for cycles or
\* for depth: the read ends with an error, and no read ever ends by
\* exhausting the interpreter's recursion limit.
C25_CyclesFailFast ==
    \A i \in PropertyReads :
        /\ history[i].raised # "RecursionError"
        /\ (Cyclic(history[i].before, history[i].self)
            /\ history[i].status # "running") =>
              history[i].status = "raised"

\* what the code does: a read of a tree with a cycle recurses until the
\* interpreter's limit, a read of a tree without one returns
C25_CyclesExhaustTheStack ==
    \A i \in PropertyReads :
        history[i].status # "running" =>
            (history[i].raised = "RecursionError"
             <=> Cyclic(history[i].before, history[i].self))

----------------------------------------------------------------------------
(* Properties of the flag _currently_calling_action *)

\* some activation of the wrapper on instance o has not ended
InProgress(o) == \E i \in DOMAIN stack : stack[i].self = o

\* C26: _currently_calling_action of an instance is true exactly while an
\* action invocation on that instance is in progress: through the whole
\* body of the outermost invocation, also after a nested call of another
\* action of the instance has returned, and false once the outermost
\* invocation has ended, normally or by an exception.
C26_FlagWhileInProgress ==
    \A o \in DOMAIN objects :
        objects[o]._currently_calling_action <=> InProgress(o)

\* the part that holds: the flag is false on every instance without an
\* invocation in progress, however the last one ended
C26_FlagClearedAtTheEnd ==
    \A o \in DOMAIN objects :
        ~InProgress(o) => ~objects[o]._currently_calling_action

----------------------------------------------------------------------------
(* Properties of the subcomponents' contributions to an outermost call *)

\* entry e is a call without bits_per_action of an action not declared
\* pipelined, and every subcomponent of the instance has none itself
OverLeaves(e) ==
    /\ "bits_per_action" \notin DOMAIN e.kwargs
    /\ ~Called(e).pipelined_subcomponents
    /\ e.before[e.self].subcomponents # <<>>
    /\ \A k \in DOMAIN e.before[e.self].subcomponents :
          e.before[e.before[e.self].subcomponents[k]].subcomponents = <<>>

\* what the subcomponent actions in calls, from the k-th on, accumulate
RECURSIVE Contributions(_, _, _, _)
Contributions(e, calls, k, quantity) ==
    IF k > Len(calls) THEN 0
    ELSE LET sub == e.before[e.before[e.self].subcomponents[calls[k].sub]]
             decl == ClassActions(sub.cls)[calls[k].name]
         IN  (IF quantity = "energy"
              THEN OwnEnergy(decl) * sub.energy_scale
              ELSE OwnLatency(decl) * sub.latency_scale)
             + Contributions(e, calls, k + 1, quantity)

\* the accumulators of the subcomponents of instance o are zero
SubcomponentsAtZero(objs, o) ==
    \A k \in DOMAIN objs[o].subcomponents :
        /\ objs[objs[o].subcomponents[k]]._energy_used = 0
        /\ objs[objs[o].subcomponents[k]]._latency_used = 0

\* the function of an outermost call is about to run its first statement
OutermostBodyStarts ==
    /\ Len(stack) = 1
    /\ stack[1].pc = 1
    /\ ~stack[1].was_already_calling_action

\* C27: the energy and the latency an outermost call reports are its own,
\* scaled, plus what every action of a direct subcomponent called during
\* its body accumulated, each once, whether the body calls the
\* subcomponents itself or through other actions of the instance, in any
\* order; the accumulators of the subcomponents are zero when the outermost
\* body starts and zero again when the call has returned.
C27_EverySubcomponentActionOnce ==
    /\ \A i \in ReturnedCalls :
          OverLeaves(history[i]) =>
             /\ history[i].energy
                = OwnEnergy(Called(history[i]))
                     * history[i].before[history[i].self].energy_scale
                  + Contributions(history[i], CallsOf(history[i]), 1, "energy")
             /\ history[i].latency
                = ScaledOwnLatency(history[i])
                  + Contributions(history[i], CallsOf(history[i]), 1,
                                  "latency")
             /\ JustFinished(i) =>
                   SubcomponentsAtZero(objects, history[i].self)
    /\ OutermostBodyStarts => SubcomponentsAtZero(objects, stack[1].self)

\* the same for bodies in which no call, of a subcomponent or of the
\* instance itself, is followed by a call of an action of the instance
C27_OnceUnlessNestedCallFollows ==
    /\ \A i \in ReturnedCalls :
          (OverLeaves(history[i])
           /\ history[i].func \notin {"flush", "read_then_idle"}) =>
             /\ history[i].energy
                = OwnEnergy(Called(history[i]))
                     * history[i].before[history[i].self].energy_scale
                  + Contributions(history[i], CallsOf(history[i]), 1, "energy")
             /\ history[i].latency
                = ScaledOwnLatency(history[i])
                  + Contributions(history[i], CallsOf(history[i]), 1,
                                  "latency")
    /\ \A i \in ReturnedCalls :
          JustFinished(i) => SubcomponentsAtZero(objects, history[i].self)
    /\ OutermostBodyStarts => SubcomponentsAtZero(objects, stack[1].self)

----------------------------------------------------------------------------
(* Properties of the messages of an action call *)

\* the calls made from outside that have ended, by a return or an exception
EndedCalls ==
    { i \in DOMAIN history :
        history[i].op = "call" /\ history[i].status # "running" }

\* the logger of instance d holds nothing that it did not hold before the
\* call of entry e
NothingLeftBehind(e, d) ==
    \/ objects[d].logger = <<>>
    \/ objects[d].logger = e.before[d].logger

\* the first message of the subcomponent action c is in the logger of the
\* instance of entry e
Funnelled(e, c) ==
    \E k \in DOMAIN objects[e.self].logger :
        /\ objects[e.self].logger[k].text = "Calling action"
        /\ objects[e.self].logger[k].func = c.name
        /\ objects[e.self].logger[k].cls
           = e.before[e.before[e.self].subcomponents[c.sub]].cls
        /\ objects[e.self].logger[k].tabs >= 1

\* C28: when an action call made from outside has ended, by a return or by
\* an exception of the function or of a subcomponent action, every message
\* the subcomponents produced during the call is in the logger of the
\* instance called: none is left in the logger of a descendant.
C28_SubcomponentMessagesFunnelled ==
    \A i \in EndedCalls :
        JustFinished(i) =>
            /\ \A d \in Descendants(history[i].before, history[i].self) :
                  NothingLeftBehind(history[i], d)
            /\ history[i].status = "returned" =>
                  \A k \in DOMAIN CallsOf(history[i]) :
                      Funnelled(history[i], CallsOf(history[i])[k])

\* the same for the calls that return
C28_FunnelledOnReturn ==
    \A i \in ReturnedCalls :
        JustFinished(i) =>
            /\ \A d \in Descendants(history[i].before, history[i].self) :
                  NothingLeftBehind(history[i], d)
            /\ \A k \in DOMAIN CallsOf(history[i]) :
                  Funnelled(history[i], CallsOf(history[i])[k])

----------------------------------------------------------------------------
(* Properties of a call that passes bits_per_action to an instance without  *)
(* the attribute the action names                                           *)

\* entry e passes bits_per_action to an action that declares a bit-width
\* attribute which the instance does not have, or has as None
MissingBits(e) ==
    /\ e.op = "call"
    /\ Called(e).bits_per_action # "None"
    /\ "bits_per_action" \in DOMAIN e.kwargs
    /\ IsNone(GetAttr(e.before[e.self], Called(e).bits_per_action))

\* energy and latency accumulators of every instance
Accumulators(objs) ==
    [o \in DOMAIN objs |-> << objs[o]._energy_used, objs[o]._latency_used >>]

\* no action of a subcomponent has run: their loggers are as they were
BodyNotExecuted(e) ==
    \A d \in Descendants(e.before, e.self) :
        objects[d].logger = e.before[d].logger

\* C29: a call that passes bits_per_action to an action whose bit-width
\* attribute the instance lacks fails with a ValueError whose message
\* names that attribute, the function is not executed, and no accumulator
\* of any instance is changed.
C29_MissingBitsAttributeRefused ==
    \A i \in DOMAIN history :
        (MissingBits(history[i]) /\ JustFinished(i)) =>
            /\ history[i].status = "raised"
            /\ history[i].raised = "ValueError"
            /\ history[i].names = Called(history[i]).bits_per_action
            /\ BodyNotExecuted(history[i])
            /\ Accumulators(objects) = Accumulators(history[i].before)

\* the part that holds: the call raises, the function is not executed, and
\* the accumulators of the instance itself and of everything but its
\* direct subcomponents are as before
C29_MissingBitsRaises ==
    \A i \in DOMAIN history :
        (MissingBits(history[i]) /\ JustFinished(i)) =>
            /\ history[i].status = "raised"
            /\ BodyNotExecuted(history[i])
            /\ \A o \in DOMAIN objects :
                  o \notin Range(objects[history[i].self].subcomponents) =>
                     Accumulators(objects)[o]
                     = Accumulators(history[i].before)[o]

\* a subcomponent's accumulators are zeroed by the refused call
C29_RefusedCallResets ==
    \A i \in DOMAIN history :
        (MissingBits(history[i]) /\ JustFinished(i)) =>
            SubcomponentsAtZero(objects, history[i].self)

----------------------------------------------------------------------------
(* find_models.py: discovery of model classes.  In this part objects holds  *)
(* the state of the process that discovery reads and writes: the module     *)
(* global _ALL_ESTIMATORS, None or a list, and the number of source files   *)
(* loaded so far; history holds the calls made.  A list is a sequence of    *)
(* wrappers; a wrapper stands for the class it wraps, by name and identity. *)
(* Python lists are shared by reference: the list installed_models returns  *)
(* is the list the global refers to.                                        *)

\* most calls of get_models and installed_models in one process
MaxDiscoveries == 3

\* EnergyAreaModelWrapper(x, name); id is id(x)
ModelWrapper(name, id) == [cls |-> name, id |-> id]

\* what the process finds for a name: the installed packages are those
\* iter_modules lists with the prefix "hwcomponents_"; glob is whether
\* glob.glob finds a file or directory of that name; a package that
\* imports a model class of another package has it among its names
Environment ==
    [hwcomponents_a |-> [installed |-> TRUE, importable |-> TRUE,
                         glob |-> TRUE, isfile |-> FALSE,
                         classes |-> << "ClsA" >>],
     plugins |-> [installed |-> FALSE, importable |-> TRUE,
                  glob |-> TRUE, isfile |-> FALSE,
                  classes |-> << "ClsA", "ClsB" >>],
     lib_py |-> [installed |-> FALSE, importable |-> FALSE,
                 glob |-> TRUE, isfile |-> TRUE,
                 classes |-> << "ClsC" >>],
     data |-> [installed |-> FALSE, importable |-> FALSE,
               glob |-> TRUE, isfile |-> FALSE, classes |-> <<>>],
     absent |-> [installed |-> FALSE, importable |-> FALSE,
                 glob |-> FALSE, isfile |-> FALSE, classes |-> <<>>]]

\* iter_modules in its order, filtered by the prefix
InstalledModules == << "hwcomponents_a" >>

\* the classes dir(module) lists, as wrappers: a package is imported once,
\* so its classes keep their identity (load 0); a source file is executed
\* on every load and defines new classes each time
ModuleClasses(name, load) ==
    [k \in DOMAIN Environment[name].classes |->
        ModelWrapper(Environment[name].classes[k], load)]

\* get_models_in_module: the classes not yet in model_ids, which it extends
RECURSIVE GetModelsInModule(_, _, _, _)
GetModelsInModule(classes, k, model_ids, found) ==
    IF k > Len(classes) THEN [found |-> found, model_ids |-> model_ids]
    ELSE IF classes[k] \in model_ids
    THEN GetModelsInModule(classes, k + 1, model_ids, found)
    ELSE GetModelsInModule(classes, k + 1, model_ids \cup {classes[k]},
                           Append(found, classes[k]))

\* the loop over the modules of installed_models and over the packages of
\* get_models: models.extend(get_models_in_module(module, model_ids))
RECURSIVE ExtendFromModules(_, _, _, _)
ExtendFromModules(modules, k, model_ids, models) ==
    IF k > Len(modules) THEN [models |-> models, model_ids |-> model_ids]
    ELSE LET g == GetModelsInModule(ModuleClasses(modules[k], 0), 1,
                                    model_ids, <<>>)
         IN  ExtendFromModules(modules, k + 1, g.model_ids,
                               models \o g.found)

\* installed_models: the list of the global if there is one, else the
\* list it builds and makes the global
installed_models(g) ==
    IF ~IsNone(g._ALL_ESTIMATORS)
    THEN [globals |-> g, models |-> g._ALL_ESTIMATORS.v]
    ELSE LET built == ExtendFromModules(InstalledModules, 1, {}, <<>>).models
         IN  [globals |-> [g EXCEPT !._ALL_ESTIMATORS = ListV(built)],
              models |-> built]

\* get_models, the first loop: strings that glob does not find are dropped
Flattened(paths_or_packages) ==
    SelectSeq(paths_or_packages, LAMBDA p : Environment[p].glob)

\* get_models, the second loop: the first name that is neither a package
\* nor a file raises
Invalid(flattened) ==
    \E k \in DOMAIN flattened :
        /\ ~Environment[flattened[k]].importable
        /\ ~Environment[flattened[k]].isfile

Packages(flattened) ==
    SelectSeq(flattened, LAMBDA p : Environment[p].importable)

Paths(flattened) ==
    SelectSeq(flattened,
              LAMBDA p : ~Environment[p].importable /\ Environment[p].isfile)

\* get_models, the loop over the paths: every file is loaded anew
RECURSIVE ExtendFromPaths(_, _, _, _, _)
ExtendFromPaths(paths, k, model_ids, models, loads) ==
    IF k > Len(paths)
    THEN [models |-> models, loads |-> loads, raised |-> "None"]
    ELSE LET g == GetModelsInModule(ModuleClasses(paths[k], loads + 1), 1,
                                    model_ids, <<>>)
         IN  IF g.found = <<>>
             THEN [models |-> models, loads |-> loads + 1,
                   raised |-> "ValueError"]
             ELSE ExtendFromPaths(paths, k + 1, g.model_ids,
                                  models \o g.found, loads + 1)

\* the list models refers to has become value: when it is the list of the
\* global, the global has changed with it
Extended(g, include_installed, value) ==
    IF include_installed THEN [g EXCEPT !._ALL_ESTIMATORS = ListV(value)]
    ELSE g

\* get_models(*paths_or_packages, include_installed=...)
get_models(paths_or_packages, include_installed, g) ==
    LET flattened == Flattened(paths_or_packages)
        installed == IF include_installed THEN installed_models(g)
                     ELSE [globals |-> g, models |-> <<>>]
        fromPackages == ExtendFromModules(Packages(flattened), 1, {},
                                          installed.models)
        afterPackages == Extended(installed.globals, include_installed,
                                  fromPackages.models)
        fromPaths == ExtendFromPaths(Paths(flattened), 1,
                                     fromPackages.model_ids,
                                     fromPackages.models,
                                     afterPackages.loads)
        afterPaths == [Extended(afterPackages, include_installed,
                                fromPaths.models)
                          EXCEPT !.loads = fromPaths.loads]
    IN  IF Invalid(flattened)
        THEN [globals |-> installed.globals, raised |-> "ValueError",
              models |-> <<>>]
        ELSE [globals |-> afterPaths, raised |-> fromPaths.raised,
              models |-> IF fromPaths.raised = "None" THEN fromPaths.models
                         ELSE <<>>]

\* the arguments clients give to get_models
DiscoveryArgs ==
    { <<>>, << "hwcomponents_a" >>, << "plugins" >>, << "lib_py" >>,
      << "plugins", "lib_py" >>, << "absent" >>, << "data" >> }

DiscoveryInit ==
    /\ pc = "idle"
    /\ call = NoCall
    /\ result = NoResult
    /\ default_messages = [FloatEstimation |-> <<>>,
                           EstimatorEstimation |-> <<>>]
    /\ objects = [_ALL_ESTIMATORS |-> None, loads |-> 0]
    /\ stack = <<>>
    /\ history = <<>>

\* what a call of the two functions gave
Discovered(op, args, include_installed, raised, models) ==
    [op |-> op, args |-> args, include_installed |-> include_installed,
     raised |-> raised, models |-> models]

\* installed_models()
CallInstalledModels ==
    /\ Len(history) < MaxDiscoveries
    /\ LET r == installed_models(objects)
       IN  /\ objects' = r.globals
           /\ history' = Append(history,
                                Discovered("installed_models", <<>>, TRUE,
                                           "None", r.models))
    /\ UNCHANGED <<select_vars, stack>>

\* get_models(...)
CallGetModels ==
    /\ Len(history) < MaxDiscoveries
    /\ \E args \in DiscoveryArgs, include_installed \in BOOLEAN :
          LET r == get_models(args, include_installed, objects)
          IN  /\ objects' = r.globals
              /\ history' = Append(history,
                                   Discovered("get_models", args,
                                              include_installed, r.raised,
                                              r.models))
    /\ UNCHANGED <<select_vars, stack>>

DiscoveryNext ==
    \/ CallInstalledModels
    \/ CallGetModels

SpecDiscovery == DiscoveryInit /\ [][DiscoveryNext]_vars

\* the installed pool: the model classes of the installed packages, each
\* once
InstalledPool == << ModelWrapper("ClsA", 0) >>

\* no class is in the list twice
NoTypeTwice(models) ==
    \A j, k \in DOMAIN models : j # k => models[j] # models[k]

\* C30: whatever calls of get_models came before, installed_models
\* returns the list of the installed candidates, each once, and the list a
\* call of get_models returns holds no model class twice.
C30_DiscoveryLeavesInstalledPool ==
    \A i \in DOMAIN history :
        /\ history[i].op = "installed_models" =>
              history[i].models = InstalledPool
        /\ (history[i].op = "get_models" /\ history[i].raised = "None") =>
              NoTypeTwice(history[i].models)

\* what holds: installed_models returns the installed pool until a call of
\* get_models that includes the installed models has found a class, and a
\* call of get_models without the installed models returns no class twice
C30_PoolUntilDiscoveryExtendsIt ==
    \A i \in DOMAIN history :
        /\ (/\ history[i].op = "installed_models"
            /\ \A j \in 1..(i - 1) :
                  \/ ~history[j].include_installed
                  \/ Packages(Flattened(history[j].args))
                     \o Paths(Flattened(history[j].args)) = <<>>
                  \/ Invalid(Flattened(history[j].args)))
           => history[i].models = InstalledPool
        /\ (/\ history[i].op = "get_models"
            /\ history[i].raised = "None"
            /\ ~history[i].include_installed)
           => NoTypeTwice(history[i].models)

====
